---- MODULE Spec2Model ----
(***************************************************************************)
(* A model of the I/O expander skeleton driver                             *)
(* (drivers/ioexpander/skeleton.c): the callback registry (skel_attach),   *)
(* the interrupt top half (skel_interrupt), the bottom half                *)
(* (skel_irqworker), the exclusive access lock (skel_lock / skel_unlock)   *)
(* and the pin control operations.                                         *)
(*                                                                         *)
(* The driver is a skeleton: every access to the hardware is a place       *)
(* holder ("#warning Missing logic") under a comment that says what the    *)
(* step does.  Each place holder is modelled as exactly one step of the    *)
(* kind its comment names (one bus transaction, one request to the         *)
(* interrupt controller), at the place where it stands; the control flow   *)
(* around it is the control flow of the source as written.  A local the    *)
(* place holder would have set keeps an arbitrary value when its bus       *)
(* transaction fails.                                                      *)
(*                                                                         *)
(* Client threads and the worker thread interleave between steps.  The     *)
(* interrupt top half is one atomic step.                                  *)
(*                                                                         *)
(* The module also models the interrupt controller logic of the EFM32      *)
(* (arch/arm/src/efm32/efm32_irq.c): efm32_irqinfo, up_disable_irq and     *)
(* up_enable_irq acting on the NVIC enable registers, the System Handler   *)
(* Control and State register and the SysTick control register, and        *)
(* up_irqinitialize, which brings the controller up, in each build the     *)
(* configuration options in its body select.                               *)
(***************************************************************************)
EXTENDS Naturals, Sequences, FiniteSets

(***************************************************************************)
(* Configuration and bounds                                                *)
(***************************************************************************)

\* CONFIG_IOEXPANDER_NPINS: the number of pins of the expander
NPINS == 2

\* CONFIG_skeleton_INT_NCALLBACKS: the capacity of the callback table
NCALLBACKS == 2

\* the longest pin list handed to a multi-pin operation
MaxCount == 2

\* the number of skel_attach calls: enough to fill the table and fail once
MaxAttach == NCALLBACKS + 1

Threads == {"t1", "t2"}

NULL == "NULL"
Callbacks == {"cbA", "cbB"}

Pinset == 0 .. (2 ^ NPINS - 1)

\* the interest pinsets handed to skel_attach: the lowest pin, the highest
\* pin, every pin
AttachPinsets == {1, 2 ^ (NPINS - 1), 2 ^ NPINS - 1}

\* the pins that change in one pin event: the same choices
EventPinsets == AttachPinsets
Slots == 0 .. (NCALLBACKS - 1)

\* pin indices handed in by callers: every valid one and one past the end
PinArgs == 0 .. NPINS

OK == "OK"
ENOSPC == "ENOSPC"
ENXIO == "ENXIO"
ENOSYS == "ENOSYS"
EIO == "EIO"
EINVAL == "EINVAL"
EINTR == "EINTR"

\* the errno values a failed sem_wait leaves: the interrupted wait and another
WaitErrors == {EINTR, EINVAL}

\* the outcomes of one bus transaction
BusResults == {OK, EIO}

\* the number of external interrupt lines of the chip: more than 32, so that
\* the second pair of enable registers is in use
NEXTINT == 34

\* the number of second level GPIO interrupts, numbered after the vectors
NGPIOIRQS == 2

\* the vector numbers of the processor exceptions and of the first external
\* interrupt
EFM32_IRQ_NMI == 2
EFM32_IRQ_HARDFAULT == 3
EFM32_IRQ_MEMFAULT == 4
EFM32_IRQ_BUSFAULT == 5
EFM32_IRQ_USAGEFAULT == 6
EFM32_IRQ_SYSTICK == 15
EFM32_IRQ_INTERRUPTS == 16

NR_VECTORS == EFM32_IRQ_INTERRUPTS + NEXTINT
NR_IRQS == NR_VECTORS + NGPIOIRQS

\* registers are 32 bits wide; a register value is the set of the positions
\* of its bits that are 1
WordBits == 0 .. 31

\* (uint32_t)1 << k
Shl1(k) == {k} \cap WordBits

\* register addresses, as offsets from the base of the System Control Space
NVIC_SYSTICK_CTRL == 16
NVIC_IRQ0_31_ENABLE == 256
NVIC_IRQ0_31_CLEAR == 384
NVIC_SYSHCON == 3364

NVIC_ICTR == 4
NVIC_IRQ0_3_PRIORITY == 1024
NVIC_VECTAB == 3336
NVIC_SYSH4_7_PRIORITY == 3352
NVIC_SYSH8_11_PRIORITY == NVIC_SYSH4_7_PRIORITY + 4
NVIC_SYSH12_15_PRIORITY == NVIC_SYSH4_7_PRIORITY + 8

\* NVIC_IRQ_CLEAR(n): the Clear Enable register of external interrupt n
NVIC_IRQ_CLEAR(n) == NVIC_IRQ0_31_CLEAR + 4 * (n \div 32)

\* the value the Interrupt Controller Type register reads as: 0 for up to 32
\* interrupt lines, 1 for up to 64, ...
IctrValue == (NEXTINT - 1) \div 32

\* the priority registers of the chip: three for the system handlers 4 to 15
\* and eight for every 32 interrupt lines; each holds four priority fields
PriorityRegisters ==
  {NVIC_SYSH4_7_PRIORITY, NVIC_SYSH8_11_PRIORITY, NVIC_SYSH12_15_PRIORITY}
    \cup {NVIC_IRQ0_3_PRIORITY + 4 * k : k \in 0 .. (8 * (IctrValue + 1) - 1)}

\* the priorities: the default, and that of the SVCall exception when
\* interrupts are disabled through BASEPRI
NVIC_SYSH_PRIORITY_DEFAULT == 128
NVIC_SYSH_SVCALL_PRIORITY == 0

\* DEFPRIORITY32: the default priority in each of the four fields
DEFPRIORITY32 == [f \in 1 .. 4 |-> NVIC_SYSH_PRIORITY_DEFAULT]

\* the exceptions up_irqinitialize attaches handlers to, besides those above
EFM32_IRQ_RESERVED == 0
EFM32_IRQ_SVCALL == 11
EFM32_IRQ_DBGMONITOR == 12
EFM32_IRQ_PENDSV == 14

\* the vectors of the even and the odd GPIO interrupt
GpioVectors == {EFM32_IRQ_INTERRUPTS + 1, EFM32_IRQ_INTERRUPTS + 11}

\* the builds: CONFIG_ARMV7M_USEBASEPRI, CONFIG_ARM_MPU,
\* CONFIG_DEBUG_FEATURES, CONFIG_SUPPRESS_INTERRUPTS, CONFIG_EFM32_GPIO_IRQ,
\* CONFIG_ARCH_RAMVECTORS
Builds == [usebasepri : BOOLEAN, mpu : BOOLEAN, debug : BOOLEAN,
           suppress : BOOLEAN, gpio_irq : BOOLEAN, ramvectors : BOOLEAN]

\* the build with none of the options, but for the GPIO interrupts of NR_IRQS
PlainBuild == [usebasepri |-> FALSE, mpu |-> FALSE, debug |-> FALSE,
               suppress |-> FALSE, gpio_irq |-> TRUE, ramvectors |-> FALSE]

\* NVIC_IRQ_ENABLE(n): the Set Enable register of external interrupt n
NVIC_IRQ_ENABLE(n) == NVIC_IRQ0_31_ENABLE + 4 * (n \div 32)

NVIC_ENA_OFFSET == 0
NVIC_CLRENA_OFFSET == NVIC_IRQ0_31_CLEAR - NVIC_IRQ0_31_ENABLE

NVIC_SYSHCON_MEMFAULTENA == Shl1(16)
NVIC_SYSHCON_BUSFAULTENA == Shl1(17)
NVIC_SYSHCON_USGFAULTENA == Shl1(18)
NVIC_SYSTICK_CTRL_ENABLE == Shl1(0)

\* the pairs of enable registers the chip implements
NvicWords == 0 .. ((NEXTINT - 1) \div 32)

\* the irq numbers handed to up_disable_irq and up_enable_irq: the numbers
\* below the NMI, the exceptions that can and that cannot be disabled, the
\* first and last line of each enable register, and the numbers from
\* NR_VECTORS on
IrqArgs ==
  {0, 1, EFM32_IRQ_NMI, EFM32_IRQ_HARDFAULT, EFM32_IRQ_MEMFAULT,
   EFM32_IRQ_BUSFAULT, EFM32_IRQ_USAGEFAULT, EFM32_IRQ_SYSTICK,
   EFM32_IRQ_INTERRUPTS, EFM32_IRQ_INTERRUPTS + 31, EFM32_IRQ_INTERRUPTS + 32,
   NR_VECTORS - 1, NR_VECTORS, NR_IRQS - 1, NR_IRQS}

IOEXPANDER_DIRECTION_IN == "IN"
IOEXPANDER_DIRECTION_OUT == "OUT"
IOEXPANDER_OPTION_INVERT == "INVERT"

(***************************************************************************)
(* ioe_pinset_t arithmetic                                                 *)
(***************************************************************************)

RECURSIVE BitAnd(_, _)
BitAnd(a, b) ==
  IF a = 0 \/ b = 0 THEN 0
  ELSE (a % 2) * (b % 2) + 2 * BitAnd(a \div 2, b \div 2)

TestBit(p, pin) == (p \div (2 ^ pin)) % 2 = 1

\* pinset |= (1 << pin)
SetBit(p, pin) == IF TestBit(p, pin) THEN p ELSE p + 2 ^ pin

\* a | b
BitOr(a, b) == a + b - BitAnd(a, b)

\* pinset &= ~(1 << pin)
ClrBit(p, pin) == IF TestBit(p, pin) THEN p - 2 ^ pin ELSE p

VARIABLES
  cb,           \* priv->cb[]: the callback table
  exclsem,      \* priv->exclsem: the count of the semaphore
  hwpins,       \* the pin levels held by the expander
  intstat,      \* the expander's pending pin interrupts (its interrupt line is
                \* asserted while this is not empty)
  irq_enabled,  \* whether the interrupt source is enabled at the controller
  work_pending, \* priv->work: a bottom half is outstanding
  workq,        \* number of bottom halves in the HPWORK queue
  wpc,          \* position of the worker thread in skel_irqworker
  wi,           \* skel_irqworker: i
  wpinset,      \* skel_irqworker: pinset
  wfail,        \* the status read of this cycle failed
  wcalls,       \* callbacks invoked in this cycle: <<[slot, fn, arg]>>
  wsettled,     \* the slots that were occupied when this cycle began
  wenables,     \* re-enable requests made in this cycle
  isr_last,     \* the branch the top half took, when the last step was one
  pc,           \* position of each client thread
  op,           \* the operation each client thread is in
  arg,          \* its arguments
  loc,          \* its locals and what it did so far
  alog,         \* history of the completed skel_attach calls: whether the
                \* callback was NULL, and the return value
  assertions,   \* CONFIG_DEBUG_ASSERTIONS: DEBUGASSERT is compiled in
  nvic_enable,  \* the NVIC interrupt enable bits, one 32-bit word for each
                \* pair of Set Enable / Clear Enable registers
  syshcon,      \* the System Handler Control and State register
  systick_ctrl, \* the SysTick Control and Status register
  irqpc,        \* position of the caller of up_disable_irq / up_enable_irq
  irqop,        \* which of the two it is in
  irq,          \* its argument
  irqret,       \* what efm32_irqinfo returned to it
  regaddr,      \* its locals regaddr, bit and regval
  bit,
  regval,
  written,      \* the addresses written with putreg32 in the function
                \* that is running
  nvic_priority, \* the priority registers: four fields each
  vectab,       \* the Vector Table Offset register
  bootpc,       \* position in up_irqinitialize
  bootloc,      \* up_irqinitialize: i, regaddr, num_priority_registers
  config,       \* the configuration options of the build
  attached,     \* the vectors a handler is attached to (irq_attach)
  int_enabled,  \* interrupts are enabled at the processor (up_irq_enable)
  current_regs  \* CURRENT_REGS

vars == <<cb, exclsem, hwpins, intstat, irq_enabled, work_pending, workq,
          wpc, wi, wpinset, wfail, wcalls, wsettled, wenables, isr_last,
          pc, op, arg, loc, alog, assertions,
          nvic_enable, syshcon, systick_ctrl, irqpc, irqop, irq, irqret,
          regaddr, bit, regval, written,
          nvic_priority, vectab, bootpc, bootloc, config, attached,
          int_enabled, current_regs>>

\* everything but the executing thread's own position and history
devvars == <<cb, exclsem, hwpins, intstat, irq_enabled, work_pending, workq>>
wvars == <<wpc, wi, wpinset, wfail, wcalls, wsettled, wenables>>
cvars == <<pc, op, arg, loc>>

\* the interrupt controller and the caller of up_disable_irq / up_enable_irq
nvicregs == <<nvic_enable, syshcon, systick_ctrl, nvic_priority, vectab>>
irqlocals == <<irqpc, irqop, irq, irqret, regaddr, bit, regval, written>>

\* up_irqinitialize and what it sets up besides the registers
bootvars == <<bootpc, bootloc, config, attached, int_enabled, current_regs>>
nvicvars == <<nvicregs, irqlocals, bootvars>>

\* the driver
skelvars == <<devvars, wvars, cvars, isr_last, alog>>

FreeEntry == [pinset |-> 0, cbfunc |-> NULL]

NoArg == [pin |-> 0, dir |-> "-", opt |-> "-", value |-> FALSE,
          pins |-> <<>>, values |-> <<>>, pinset |-> 0, cbfunc |-> NULL]

\* acq: the call has acquired the lock; held: it holds the lock now;
\* nrd, nwr: the read and write bus transactions it has made;
\* out: what it has stored through its values pointer;
\* pre, post: the callback table when skel_attach took the lock and when it
\* released it; sem: the count of the semaphore after the release;
\* rd: the value of pinset after the read of a multi-pin operation;
\* err: the errno of the last sem_wait of skel_lock that failed
NoLoc == [i |-> 0, pinset |-> 0, ret |-> "none", acq |-> FALSE,
          held |-> FALSE, nrd |-> 0, nwr |-> 0, out |-> <<>>, pend |-> {},
          pre |-> <<>>, post |-> <<>>, sem |-> 0, rd |-> 0, err |-> "none"]

\* a failed DEBUGASSERT stops the system
Panicked == \E t \in Threads : pc[t] = "abort"

\* a thread calls into the driver when it is in no operation
Callable(t) == pc[t] = "idle" /\ ~Panicked

(***************************************************************************)
(* skel_initialize: the state after the device is created                  *)
(***************************************************************************)

skel_initialize ==
  /\ cb = [k \in Slots |-> FreeEntry]
  /\ exclsem = 1
  /\ hwpins = 0
  /\ intstat = 0
  /\ irq_enabled = TRUE
  /\ work_pending = FALSE
  /\ workq = 0
  /\ wpc = "idle"
  /\ wi = 0
  /\ wpinset = 0
  /\ wfail = FALSE
  /\ wcalls = <<>>
  /\ wsettled = {}
  /\ wenables = 0
  /\ isr_last = "none"
  /\ pc = [t \in Threads |-> "idle"]
  /\ op = [t \in Threads |-> "none"]
  /\ arg = [t \in Threads |-> NoArg]
  /\ loc = [t \in Threads |-> NoLoc]
  /\ alog = <<>>
  /\ assertions \in BOOLEAN

\* no call of up_disable_irq or up_enable_irq is in progress
NoIrqCall ==
  /\ irqpc = "idle"
  /\ irqop = "none"
  /\ irq = 0
  /\ irqret = "none"
  /\ regaddr = 0
  /\ bit = {}
  /\ regval = {}
  /\ written = {}

\* the enable state of the interrupt controller out of reset: nothing enabled
NvicReset ==
  /\ nvic_enable = [r \in NvicWords |-> {}]
  /\ syshcon = {}
  /\ systick_ctrl = {}

NoBootLoc == [i |-> 0, regaddr |-> 0, num |-> 0]

\* the state up_irqinitialize leaves in the plain build
IrqInitialized ==
  /\ nvic_priority = [a \in PriorityRegisters |-> DEFPRIORITY32]
  /\ vectab = "_vectors"
  /\ bootpc = "done"
  /\ bootloc = NoBootLoc
  /\ config = PlainBuild
  /\ attached = {EFM32_IRQ_SVCALL, EFM32_IRQ_HARDFAULT}
  /\ int_enabled = TRUE
  /\ current_regs = NULL

Init == skel_initialize /\ NvicReset /\ NoIrqCall /\ IrqInitialized

(***************************************************************************)
(* The exclusive access lock                                               *)
(***************************************************************************)

\* the step is not a top half
NoTopHalf == isr_last' = "none"

\* sem_wait succeeds: the caller returns from skel_lock owning the lock
skel_lock == exclsem > 0 /\ exclsem' = exclsem - 1

\* sem_post
skel_unlock == exclsem' = exclsem + 1

\* thread t moves to position p with locals l
Goto(t, p, l) ==
  /\ pc' = [pc EXCEPT ![t] = p]
  /\ loc' = [loc EXCEPT ![t] = l]

\* thread t enters operation o with arguments a
Enter(t, o, a, p) ==
  /\ Callable(t)
  /\ op' = [op EXCEPT ![t] = o]
  /\ arg' = [arg EXCEPT ![t] = a]
  /\ Goto(t, p, NoLoc)

\* the caller has taken the return value of the operation and goes on
caller_continues(t) ==
  /\ pc[t] = "done" /\ ~Panicked
  /\ pc' = [pc EXCEPT ![t] = "idle"]
  /\ op' = [op EXCEPT ![t] = "none"]
  /\ arg' = [arg EXCEPT ![t] = NoArg]
  /\ loc' = [loc EXCEPT ![t] = NoLoc]
  /\ UNCHANGED <<devvars, wvars, alog, assertions>>
  /\ NoTopHalf
  /\ UNCHANGED nvicvars

\* DEBUGASSERT(cond): the position after it
Debugassert(cond, p) == IF ~cond /\ assertions THEN "abort" ELSE p

\* a skel_lock that gives up and returns when its wait was interrupted
skel_lock_retry_returns(t) ==
  /\ pc[t] = "lock" /\ ~Panicked
  /\ \E e \in WaitErrors :
       Goto(t, Debugassert(e = EINTR, IF e = EINTR THEN "unlock" ELSE "lock"),
            [loc[t] EXCEPT !.err = e])
  /\ UNCHANGED <<devvars, wvars, op, arg, alog, assertions>>
  /\ NoTopHalf
  /\ UNCHANGED nvicvars

\* while (sem_wait(&priv->exclsem) < 0) { DEBUGASSERT(errno == EINTR); }:
\* a sem_wait of thread t in skel_lock fails, and the loop goes round
skel_lock_retry(t) ==
  /\ pc[t] = "lock" /\ ~Panicked
  /\ \E e \in WaitErrors :
       Goto(t, Debugassert(e = EINTR, "lock"), [loc[t] EXCEPT !.err = e])
  /\ UNCHANGED <<devvars, wvars, op, arg, alog, assertions>>
  /\ NoTopHalf
  /\ UNCHANGED nvicvars

(***************************************************************************)
(* skel_attach                                                             *)
(***************************************************************************)

InAttach == {t \in Threads : op[t] = "attach" /\ pc[t] # "done"}

\* at most limit calls of skel_attach are made in a run
skel_attach_call(t, pinset, callback, limit) ==
  /\ Len(alog) + Cardinality(InAttach) < limit
  /\ Enter(t, "attach", [NoArg EXCEPT !.pinset = pinset, !.cbfunc = callback],
           "lock")
  /\ UNCHANGED <<devvars, wvars, alog, assertions>>
  /\ NoTopHalf
  /\ UNCHANGED nvicvars

\* a skel_attach that goes on without waiting for the lock
skel_attach_lock_skips_wait(t) ==
  /\ pc[t] = "lock" /\ op[t] = "attach" /\ ~Panicked
  /\ Goto(t, "scan", [loc[t] EXCEPT !.ret = ENOSPC, !.i = 0, !.pre = cb])
  /\ UNCHANGED <<devvars, wvars, op, arg, alog, assertions>>
  /\ NoTopHalf
  /\ UNCHANGED nvicvars

\* skel_lock(priv); ret = -ENOSPC; i = 0
skel_attach_lock(t) ==
  /\ pc[t] = "lock" /\ op[t] = "attach" /\ ~Panicked
  /\ skel_lock
  /\ Goto(t, "scan", [loc[t] EXCEPT !.acq = TRUE, !.held = TRUE,
                                    !.ret = ENOSPC, !.i = 0, !.pre = cb])
  /\ UNCHANGED <<cb, hwpins, intstat, irq_enabled, work_pending, workq,
                 wvars, op, arg, alog, assertions>>
  /\ NoTopHalf
  /\ UNCHANGED nvicvars

\* the position after entry i of the table has been dealt with
AttachNext(i) == IF i + 1 < NCALLBACKS THEN "scan" ELSE "unlock"

\* one of the two stores of skel_attach into entry i
StoreField(t, i, f) ==
  cb' = [cb EXCEPT ![i] = IF f = "pinset"
                          THEN [@ EXCEPT !.pinset = arg[t].pinset]
                          ELSE [@ EXCEPT !.cbfunc = arg[t].cbfunc]]

\* a scan that stores into entry i whether it is free or not
skel_attach_scan_overwrites(t) ==
  /\ pc[t] = "scan" /\ op[t] = "attach" /\ ~Panicked
  /\ \E f \in {"pinset", "cbfunc"} :
       /\ StoreField(t, loc[t].i, f)
       /\ Goto(t, "store", [loc[t] EXCEPT !.pend = {"pinset", "cbfunc"} \ {f}])
  /\ UNCHANGED <<exclsem, hwpins, intstat, irq_enabled, work_pending, workq,
                 wvars, op, arg, alog, assertions>>
  /\ NoTopHalf
  /\ UNCHANGED nvicvars

\* if (priv->cb[i].cbfunc == NULL): the entry is free, and the first of the
\* two stores into it is made; or it is not, and the loop goes on.  The
\* stores priv->cb[i].pinset = pinset and priv->cb[i].cbfunc = callback are
\* plain stores, which the worker (it reads the table without the lock) may
\* see in either order
skel_attach_scan(t) ==
  /\ pc[t] = "scan" /\ op[t] = "attach" /\ ~Panicked
  /\ LET i == loc[t].i IN
       IF cb[i].cbfunc = NULL
       THEN \E f \in {"pinset", "cbfunc"} :
              /\ StoreField(t, i, f)
              /\ Goto(t, "store",
                      [loc[t] EXCEPT !.pend = {"pinset", "cbfunc"} \ {f}])
       ELSE /\ Goto(t, AttachNext(i), [loc[t] EXCEPT !.i = i + 1])
            /\ UNCHANGED cb
  /\ UNCHANGED <<exclsem, hwpins, intstat, irq_enabled, work_pending, workq,
                 wvars, op, arg, alog, assertions>>
  /\ NoTopHalf
  /\ UNCHANGED nvicvars

\* skel_attach_store without its "ret = OK"
skel_attach_store_keeps_ret(t) ==
  /\ pc[t] = "store" /\ op[t] = "attach" /\ ~Panicked
  /\ \E f \in loc[t].pend :
       LET i == loc[t].i IN
         /\ StoreField(t, i, f)
         /\ Goto(t, AttachNext(i), [loc[t] EXCEPT !.pend = {}, !.i = i + 1])
  /\ UNCHANGED <<exclsem, hwpins, intstat, irq_enabled, work_pending, workq,
                 wvars, op, arg, alog, assertions>>
  /\ NoTopHalf
  /\ UNCHANGED nvicvars

\* the second of the two stores into entry i; ret = OK
skel_attach_store(t) ==
  /\ pc[t] = "store" /\ op[t] = "attach" /\ ~Panicked
  /\ \E f \in loc[t].pend :
       LET i == loc[t].i IN
         /\ StoreField(t, i, f)
         /\ Goto(t, AttachNext(i),
                 [loc[t] EXCEPT !.pend = {}, !.ret = OK, !.i = i + 1])
  /\ UNCHANGED <<exclsem, hwpins, intstat, irq_enabled, work_pending, workq,
                 wvars, op, arg, alog, assertions>>
  /\ NoTopHalf
  /\ UNCHANGED nvicvars

\* skel_unlock(priv); return ret
skel_attach_unlock(t) ==
  /\ pc[t] = "unlock" /\ op[t] = "attach" /\ ~Panicked
  /\ skel_unlock
  /\ Goto(t, "done", [loc[t] EXCEPT !.held = FALSE, !.post = cb,
                                    !.sem = exclsem'])
  /\ alog' = Append(alog, [null |-> arg[t].cbfunc = NULL, ret |-> loc[t].ret])
  /\ UNCHANGED <<cb, hwpins, intstat, irq_enabled, work_pending, workq,
                 wvars, op, arg, assertions>>
  /\ NoTopHalf
  /\ UNCHANGED nvicvars

\* callbacks: the callbacks the clients of this run hand in
skel_attach(t, limit, callbacks) ==
  \/ \E pinset \in AttachPinsets, callback \in callbacks :
       skel_attach_call(t, pinset, callback, limit)
  \/ skel_attach_lock(t)
  \/ skel_attach_scan(t)
  \/ skel_attach_store(t)
  \/ skel_attach_unlock(t)

(***************************************************************************)
(* The expander raises pin interrupts                                      *)
(***************************************************************************)

\* pins change: the expander latches them in its interrupt status and
\* asserts its interrupt line
PinEvent ==
  /\ ~Panicked
  /\ \E e \in EventPinsets :
       /\ BitOr(intstat, e) # intstat
       /\ intstat' = BitOr(intstat, e)
  /\ UNCHANGED <<cb, exclsem, hwpins, irq_enabled, work_pending, workq,
                 wvars, cvars, alog, assertions>>
  /\ NoTopHalf
  /\ UNCHANGED nvicvars

(***************************************************************************)
(* The work queue and the interrupt controller                             *)
(***************************************************************************)

\* work_available(&priv->work): no bottom half is outstanding
work_available == ~work_pending

\* work_queue(HPWORK, &priv->work, skel_irqworker, priv, 0)
work_queue ==
  /\ work_pending' = TRUE
  /\ workq' = workq + 1

\* the request to disable the interrupt source
disable_source == irq_enabled' = FALSE

\* the request to re-enable the interrupt source
enable_source == irq_enabled' = TRUE

(***************************************************************************)
(* skel_interrupt: the top half                                            *)
(***************************************************************************)

\* a top half that does not ask whether a bottom half is outstanding
skel_interrupt_always_schedules ==
  /\ ~Panicked
  /\ irq_enabled /\ intstat # 0
  /\ disable_source
  /\ work_queue
  /\ isr_last' = "scheduled"
  /\ UNCHANGED <<cb, exclsem, hwpins, intstat, wvars, cvars, alog, assertions>>
  /\ UNCHANGED nvicvars

\* a top half that queues the bottom half and leaves the source enabled
skel_interrupt_keeps_enabled ==
  /\ ~Panicked
  /\ irq_enabled /\ intstat # 0
  /\ IF work_available
     THEN /\ work_queue
          /\ isr_last' = "scheduled"
          /\ UNCHANGED irq_enabled
     ELSE /\ isr_last' = "skipped"
          /\ UNCHANGED <<irq_enabled, work_pending, workq>>
  /\ UNCHANGED <<cb, exclsem, hwpins, intstat, wvars, cvars, alog, assertions>>
  /\ UNCHANGED nvicvars

\* a top half that takes the exclusive access lock
skel_interrupt_takes_lock ==
  /\ ~Panicked
  /\ irq_enabled /\ intstat # 0
  /\ skel_lock
  /\ IF work_available
     THEN /\ disable_source
          /\ work_queue
          /\ isr_last' = "scheduled"
     ELSE /\ isr_last' = "skipped"
          /\ UNCHANGED <<irq_enabled, work_pending, workq>>
  /\ UNCHANGED <<cb, hwpins, intstat, wvars, cvars, alog, assertions>>
  /\ UNCHANGED nvicvars

skel_interrupt ==
  /\ ~Panicked
  /\ irq_enabled /\ intstat # 0
  /\ IF work_available
     THEN /\ disable_source
          /\ work_queue
          /\ isr_last' = "scheduled"
     ELSE /\ isr_last' = "skipped"
          /\ UNCHANGED <<irq_enabled, work_pending, workq>>
  /\ UNCHANGED <<cb, exclsem, hwpins, intstat, wvars, cvars, alog, assertions>>
  /\ UNCHANGED nvicvars

(***************************************************************************)
(* skel_irqworker: the bottom half                                         *)
(***************************************************************************)

\* the slots whose registration was complete
Settled ==
  {k \in Slots : /\ cb[k].cbfunc # NULL
                 /\ ~\E t \in Threads : pc[t] = "store" /\ loc[t].i = k}

\* the worker thread takes the bottom half off the queue and enters it
skel_irqworker_start ==
  /\ ~Panicked
  /\ wpc = "idle" /\ workq > 0
  /\ workq' = workq - 1
  /\ wpc' = "read"
  /\ wi' = 0
  /\ wsettled' = Settled
  /\ UNCHANGED <<cb, exclsem, hwpins, intstat, irq_enabled, work_pending,
                 wpinset, wfail, wcalls, wenables, cvars, alog, assertions>>
  /\ NoTopHalf
  /\ UNCHANGED nvicvars

\* Read the pinset from the IO-Expander hardware: one bus transaction, which
\* reads and clears the interrupt status; when it fails, pinset is not set
skel_irqworker_read ==
  /\ ~Panicked
  /\ wpc = "read"
  /\ \E r \in BusResults :
       IF r = OK
       THEN /\ wpinset' = intstat
            /\ intstat' = 0
            /\ wfail' = FALSE
       ELSE /\ wpinset' \in Pinset
            /\ wfail' = TRUE
            /\ UNCHANGED intstat
  /\ wpc' = "loop"
  /\ UNCHANGED <<cb, exclsem, hwpins, irq_enabled, work_pending, workq,
                 wi, wcalls, wsettled, wenables, cvars, alog,
                 assertions>>
  /\ NoTopHalf
  /\ UNCHANGED nvicvars

\* a loop that is left after its first pass
WorkerNext_after_first(i) == "reenable"

\* the position after entry i of the table has been evaluated
WorkerNext(i) == IF i + 1 < NCALLBACKS THEN "loop" ELSE "reenable"

\* a handler given the whole event pinset when any of its pins matched
Match_whole_event(pinset, interest) ==
  IF BitAnd(pinset, interest) # 0 THEN pinset ELSE 0

\* ioe_pinset_t match = pinset & priv->cb[i].pinset
Match(pinset, interest) == BitAnd(pinset, interest)

\* a bottom half that takes the lock before it calls a handler
skel_irqworker_eval_locked ==
  /\ ~Panicked
  /\ wpc = "loop"
  /\ LET match == Match(wpinset, cb[wi].pinset) IN
       IF cb[wi].cbfunc # NULL /\ match # 0
       THEN /\ skel_lock
            /\ wcalls' = Append(wcalls, [slot |-> wi, fn |-> cb[wi].cbfunc,
                                         arg |-> match])
            /\ wpc' = "call"
            /\ UNCHANGED wi
       ELSE /\ wi' = wi + 1
            /\ wpc' = WorkerNext(wi)
            /\ UNCHANGED <<wcalls, exclsem>>
  /\ UNCHANGED <<cb, hwpins, intstat, irq_enabled, work_pending, workq,
                 wpinset, wfail, wsettled, wenables, cvars, alog, assertions>>
  /\ NoTopHalf
  /\ UNCHANGED nvicvars

\* one pass of the loop over the table, up to the call of the handler
skel_irqworker_eval ==
  /\ ~Panicked
  /\ wpc = "loop"
  /\ LET match == Match(wpinset, cb[wi].pinset) IN
       IF cb[wi].cbfunc # NULL /\ match # 0
       THEN /\ wcalls' = Append(wcalls, [slot |-> wi, fn |-> cb[wi].cbfunc,
                                         arg |-> match])
            /\ wpc' = "call"
            /\ UNCHANGED wi
       ELSE /\ wi' = wi + 1
            /\ wpc' = WorkerNext(wi)
            /\ UNCHANGED wcalls
  /\ UNCHANGED <<devvars, wpinset, wfail, wsettled, wenables, cvars, alog, assertions>>
  /\ NoTopHalf
  /\ UNCHANGED nvicvars

\* a loop that evaluates the same entry again when its handler has returned
skel_irqworker_cbreturn_repeats ==
  /\ ~Panicked
  /\ wpc = "call"
  /\ Len(wcalls) <= NCALLBACKS
  /\ wpc' = "loop"
  /\ UNCHANGED <<devvars, wi, wpinset, wfail, wcalls, wsettled, wenables,
                 cvars, alog, assertions>>
  /\ NoTopHalf
  /\ UNCHANGED nvicvars

\* the handler returns
skel_irqworker_cbreturn ==
  /\ ~Panicked
  /\ wpc = "call"
  /\ wi' = wi + 1
  /\ wpc' = WorkerNext(wi)
  /\ UNCHANGED <<devvars, wpinset, wfail, wcalls, wsettled, wenables,
                 cvars, alog, assertions>>
  /\ NoTopHalf
  /\ UNCHANGED nvicvars

\* a bottom half that ends without its request to re-enable the source
skel_irqworker_reenable_dropped ==
  /\ ~Panicked
  /\ wpc = "reenable"
  /\ wpc' = "done"
  /\ UNCHANGED <<devvars, wi, wpinset, wfail, wcalls, wsettled, wenables,
                 cvars, alog, assertions>>
  /\ NoTopHalf
  /\ UNCHANGED nvicvars

\* a re-enable that discards the interrupt condition pending in the expander
skel_irqworker_reenable_discards ==
  /\ ~Panicked
  /\ wpc = "reenable"
  /\ enable_source
  /\ intstat' = 0
  /\ wenables' = wenables + 1
  /\ wpc' = "done"
  /\ UNCHANGED <<cb, exclsem, hwpins, work_pending, workq,
                 wi, wpinset, wfail, wcalls, wsettled, cvars, alog,
                 assertions>>
  /\ NoTopHalf
  /\ UNCHANGED nvicvars

\* Re-enable interrupts
skel_irqworker_reenable ==
  /\ ~Panicked
  /\ wpc = "reenable"
  /\ enable_source
  /\ wenables' = wenables + 1
  /\ wpc' = "done"
  /\ UNCHANGED <<cb, exclsem, hwpins, intstat, work_pending, workq,
                 wi, wpinset, wfail, wcalls, wsettled, cvars, alog,
                 assertions>>
  /\ NoTopHalf
  /\ UNCHANGED nvicvars

\* skel_irqworker returns: the bottom half is no longer outstanding
skel_irqworker_return ==
  /\ ~Panicked
  /\ wpc = "done"
  /\ work_pending' = FALSE
  /\ wpc' = "idle"
  /\ wi' = 0
  /\ wpinset' = 0
  /\ wfail' = FALSE
  /\ wcalls' = <<>>
  /\ wsettled' = {}
  /\ wenables' = 0
  /\ UNCHANGED <<cb, exclsem, hwpins, intstat, irq_enabled, workq,
                 cvars, alog, assertions>>
  /\ NoTopHalf
  /\ UNCHANGED nvicvars

skel_irqworker ==
  \/ skel_irqworker_start
  \/ skel_irqworker_read
  \/ skel_irqworker_eval
  \/ skel_irqworker_cbreturn
  \/ skel_irqworker_reenable
  \/ skel_irqworker_return

(***************************************************************************)
(* The pin control operations on one pin                                   *)
(***************************************************************************)

\* what no pin control operation touches
notpins == <<cb, intstat, irq_enabled, work_pending, workq, wvars, alog,
             assertions>>

SinglePinOps == {"direction", "option", "writepin", "readpin", "readbuf"}

\* DEBUGASSERT(priv != NULL && pin < CONFIG_IOEXPANDER_NPINS &&
\*             (direction == IOEXPANDER_DIRECTION_IN ||
\*              direction == IOEXPANDER_DIRECTION_IN))
DirectionPrecondition(pin, direction) ==
  /\ pin < NPINS
  /\ (direction = IOEXPANDER_DIRECTION_IN \/ direction = IOEXPANDER_DIRECTION_IN)

skel_direction_call(t, pin, direction) ==
  /\ Enter(t, "direction", [NoArg EXCEPT !.pin = pin, !.dir = direction],
           Debugassert(DirectionPrecondition(pin, direction), "lock"))
  /\ UNCHANGED <<exclsem, hwpins, notpins>>
  /\ NoTopHalf
  /\ UNCHANGED nvicvars

\* int ret = -ENOSYS; if (opt == IOEXPANDER_OPTION_INVERT) ...; return ret
skel_option_call(t, pin, opt) ==
  /\ Callable(t)
  /\ op' = [op EXCEPT ![t] = "option"]
  /\ arg' = [arg EXCEPT ![t] = [NoArg EXCEPT !.pin = pin, !.opt = opt]]
  /\ Goto(t, IF opt = IOEXPANDER_OPTION_INVERT THEN "lock" ELSE "done",
          [NoLoc EXCEPT !.ret = ENOSYS])
  /\ UNCHANGED <<exclsem, hwpins, notpins>>
  /\ NoTopHalf
  /\ UNCHANGED nvicvars

\* DEBUGASSERT(priv != NULL && pin < CONFIG_IOEXPANDER_NPINS)
skel_writepin_call(t, pin, value) ==
  /\ Enter(t, "writepin", [NoArg EXCEPT !.pin = pin, !.value = value],
           Debugassert(pin < NPINS, "lock"))
  /\ UNCHANGED <<exclsem, hwpins, notpins>>
  /\ NoTopHalf
  /\ UNCHANGED nvicvars

\* DEBUGASSERT(priv != NULL && pin < CONFIG_IOEXPANDER_NPINS && value != NULL)
skel_readpin_call(t, pin) ==
  /\ Enter(t, "readpin", [NoArg EXCEPT !.pin = pin],
           Debugassert(pin < NPINS, "lock"))
  /\ UNCHANGED <<exclsem, hwpins, notpins>>
  /\ NoTopHalf
  /\ UNCHANGED nvicvars

\* skel_readbuf checks nothing
skel_readbuf_call(t, pin) ==
  /\ Enter(t, "readbuf", [NoArg EXCEPT !.pin = pin], "lock")
  /\ UNCHANGED <<exclsem, hwpins, notpins>>
  /\ NoTopHalf
  /\ UNCHANGED nvicvars

\* skel_lock(priv)
skel_pin_lock(t) ==
  /\ pc[t] = "lock" /\ op[t] \in SinglePinOps /\ ~Panicked
  /\ skel_lock
  /\ Goto(t, "txn", [loc[t] EXCEPT !.acq = TRUE, !.held = TRUE])
  /\ UNCHANGED <<hwpins, notpins, op, arg>>
  /\ NoTopHalf
  /\ UNCHANGED nvicvars

\* the level of a pin of the expander; a pin the expander does not have reads
\* as low
PinLevel(pinset, pin) == pin < NPINS /\ TestBit(pinset, pin)

\* the pin levels after a pin is driven; a pin the expander does not have
\* drives nothing
DrivePin(pinset, pin, value) ==
  IF pin >= NPINS THEN pinset
  ELSE IF value THEN SetBit(pinset, pin) ELSE ClrBit(pinset, pin)

\* the register access of the operation: one bus transaction, whose result
\* is the operation's return value
skel_pin_txn(t) ==
  /\ pc[t] = "txn" /\ op[t] \in SinglePinOps /\ ~Panicked
  /\ \E r \in BusResults :
       LET reads == op[t] \in {"readpin", "readbuf"}
           l == [loc[t] EXCEPT
                   !.ret = r,
                   !.nrd = IF reads THEN @ + 1 ELSE @,
                   !.nwr = IF reads THEN @ ELSE @ + 1,
                   !.out = IF reads /\ r = OK
                           THEN <<PinLevel(hwpins, arg[t].pin)>> ELSE @]
       IN /\ Goto(t, "unlock", l)
          /\ hwpins' = IF op[t] = "writepin" /\ r = OK
                       THEN DrivePin(hwpins, arg[t].pin, arg[t].value)
                       ELSE hwpins
  /\ UNCHANGED <<exclsem, notpins, op, arg>>
  /\ NoTopHalf
  /\ UNCHANGED nvicvars

\* a return without skel_unlock
skel_pin_unlock_keeps_lock(t) ==
  /\ pc[t] = "unlock" /\ op[t] \in SinglePinOps /\ ~Panicked
  /\ Goto(t, "done", loc[t])
  /\ UNCHANGED <<exclsem, hwpins, notpins, op, arg>>
  /\ NoTopHalf
  /\ UNCHANGED nvicvars

\* skel_unlock(priv); return ret
skel_pin_unlock(t) ==
  /\ pc[t] = "unlock" /\ op[t] \in SinglePinOps /\ ~Panicked
  /\ skel_unlock
  /\ Goto(t, "done", [loc[t] EXCEPT !.held = FALSE])
  /\ UNCHANGED <<hwpins, notpins, op, arg>>
  /\ NoTopHalf
  /\ UNCHANGED nvicvars

skel_singlepin(t) ==
  \/ \E pin \in PinArgs,
        direction \in {IOEXPANDER_DIRECTION_IN, IOEXPANDER_DIRECTION_OUT} :
       skel_direction_call(t, pin, direction)
  \/ \E pin \in PinArgs, opt \in {IOEXPANDER_OPTION_INVERT, "OTHER"} :
       skel_option_call(t, pin, opt)
  \/ \E pin \in PinArgs, value \in BOOLEAN : skel_writepin_call(t, pin, value)
  \/ \E pin \in PinArgs : skel_readpin_call(t, pin)
  \/ \E pin \in PinArgs : skel_readbuf_call(t, pin)
  \/ skel_pin_lock(t)
  \/ skel_pin_txn(t)
  \/ skel_pin_unlock(t)

(***************************************************************************)
(* The pin control operations on several pins                              *)
(***************************************************************************)

MultiReadOps == {"multireadpin", "multireadbuf"}
MultiPinOps == {"multiwritepin"} \cup MultiReadOps

\* the pin lists handed in: count pins, 0 < count <= MaxCount
PinLists == UNION {[1 .. n -> PinArgs] : n \in 1 .. MaxCount}
ValueLists(n) == [1 .. n -> BOOLEAN]

skel_multiwritepin_call(t, pins, values) ==
  /\ Enter(t, "multiwritepin", [NoArg EXCEPT !.pins = pins, !.values = values],
           "lock")
  /\ UNCHANGED <<exclsem, hwpins, notpins>>
  /\ NoTopHalf
  /\ UNCHANGED nvicvars

\* DEBUGASSERT(priv != NULL && pins != NULL && values != NULL && count > 0)
skel_multiread_call(t, o, pins) ==
  /\ Enter(t, o, [NoArg EXCEPT !.pins = pins],
           Debugassert(Len(pins) > 0, "lock"))
  /\ UNCHANGED <<exclsem, hwpins, notpins>>
  /\ NoTopHalf
  /\ UNCHANGED nvicvars

skel_multireadpin_call(t, pins) == skel_multiread_call(t, "multireadpin", pins)

skel_multireadbuf_call(t, pins) == skel_multiread_call(t, "multireadbuf", pins)

\* skel_lock(priv)
skel_multi_lock(t) ==
  /\ pc[t] = "lock" /\ op[t] \in MultiPinOps /\ ~Panicked
  /\ skel_lock
  /\ Goto(t, "read", [loc[t] EXCEPT !.acq = TRUE, !.held = TRUE])
  /\ UNCHANGED <<hwpins, notpins, op, arg>>
  /\ NoTopHalf
  /\ UNCHANGED nvicvars

\* Read the pinset from the IO-Expander hardware: one bus transaction; when
\* it fails, pinset is not set
skel_multi_read(t) ==
  /\ pc[t] = "read" /\ op[t] \in MultiPinOps /\ ~Panicked
  /\ \E r \in BusResults :
       \E p \in (IF r = OK THEN {hwpins} ELSE Pinset) :
         Goto(t, "loop", [loc[t] EXCEPT !.pinset = p, !.rd = p, !.nrd = @ + 1])
  /\ UNCHANGED <<exclsem, hwpins, notpins, op, arg>>
  /\ NoTopHalf
  /\ UNCHANGED nvicvars

\* a loop that sets the bits of the true values and clears none
RECURSIVE ApplyChanges_sets_only(_, _, _, _)
ApplyChanges_sets_only(pinset, pins, values, i) ==
  IF i > Len(pins) THEN [bad |-> 0, pinset |-> pinset]
  ELSE IF pins[i] >= NPINS THEN [bad |-> i, pinset |-> pinset]
  ELSE ApplyChanges_sets_only(IF values[i] THEN SetBit(pinset, pins[i])
                                           ELSE pinset,
                              pins, values, i + 1)

\* the loop of skel_multiwritepin from entry i on: the index of the first
\* entry out of range (0: none) and the pinset when the loop is left
RECURSIVE ApplyChanges(_, _, _, _)
ApplyChanges(pinset, pins, values, i) ==
  IF i > Len(pins) THEN [bad |-> 0, pinset |-> pinset]
  ELSE IF pins[i] >= NPINS THEN [bad |-> i, pinset |-> pinset]
  ELSE ApplyChanges(IF values[i] THEN SetBit(pinset, pins[i])
                                 ELSE ClrBit(pinset, pins[i]),
                    pins, values, i + 1)

\* skel_multiwritepin_loop returning -ENXIO without skel_unlock
skel_multiwritepin_loop_keeps_lock(t) ==
  /\ pc[t] = "loop" /\ op[t] = "multiwritepin" /\ ~Panicked
  /\ LET r == ApplyChanges(loc[t].pinset, arg[t].pins, arg[t].values, 1) IN
       IF r.bad # 0
       THEN Goto(t, "done", [loc[t] EXCEPT !.pinset = r.pinset, !.ret = ENXIO])
       ELSE Goto(t, "write", [loc[t] EXCEPT !.pinset = r.pinset])
  /\ UNCHANGED <<exclsem, hwpins, notpins, op, arg>>
  /\ NoTopHalf
  /\ UNCHANGED nvicvars

\* a loop that leaves an index out of range aside and goes on to the write
\* back
skel_multiwritepin_loop_writes_partial(t) ==
  /\ pc[t] = "loop" /\ op[t] = "multiwritepin" /\ ~Panicked
  /\ LET r == ApplyChanges(loc[t].pinset, arg[t].pins, arg[t].values, 1) IN
       Goto(t, "write", [loc[t] EXCEPT !.pinset = r.pinset])
  /\ UNCHANGED <<exclsem, hwpins, notpins, op, arg>>
  /\ NoTopHalf
  /\ UNCHANGED nvicvars

\* Apply the user defined changes
skel_multiwritepin_loop(t) ==
  /\ pc[t] = "loop" /\ op[t] = "multiwritepin" /\ ~Panicked
  /\ LET r == ApplyChanges(loc[t].pinset, arg[t].pins, arg[t].values, 1) IN
       IF r.bad # 0
       THEN \* skel_unlock(priv); return -ENXIO
            /\ skel_unlock
            /\ Goto(t, "done", [loc[t] EXCEPT !.pinset = r.pinset,
                                              !.ret = ENXIO, !.held = FALSE])
       ELSE /\ Goto(t, "write", [loc[t] EXCEPT !.pinset = r.pinset])
            /\ UNCHANGED exclsem
  /\ UNCHANGED <<hwpins, notpins, op, arg>>
  /\ NoTopHalf
  /\ UNCHANGED nvicvars

\* a write back made of one bus transaction for each pin of the list
skel_multiwritepin_write_per_pin(t) ==
  /\ pc[t] = "write" /\ op[t] = "multiwritepin" /\ ~Panicked
  /\ \E r \in BusResults :
       /\ Goto(t, "unlock", [loc[t] EXCEPT !.ret = r,
                                           !.nwr = @ + Len(arg[t].pins)])
       /\ hwpins' = IF r = OK THEN loc[t].pinset ELSE hwpins
  /\ UNCHANGED <<exclsem, notpins, op, arg>>
  /\ NoTopHalf
  /\ UNCHANGED nvicvars

\* Now write back the new pins states: one bus transaction, whose result is
\* the return value
skel_multiwritepin_write(t) ==
  /\ pc[t] = "write" /\ op[t] = "multiwritepin" /\ ~Panicked
  /\ \E r \in BusResults :
       /\ Goto(t, "unlock", [loc[t] EXCEPT !.ret = r, !.nwr = @ + 1])
       /\ hwpins' = IF r = OK THEN loc[t].pinset ELSE hwpins
  /\ UNCHANGED <<exclsem, notpins, op, arg>>
  /\ NoTopHalf
  /\ UNCHANGED nvicvars

\* values[i] = ((pinset & (1 << pin) != 0): != binds tighter than &
GetBit(pinset, pin) == BitAnd(pinset, IF 2 ^ pin # 0 THEN 1 ELSE 0) # 0

\* the loop of skel_getmultibits from entry i on: the return value and the
\* values stored
RECURSIVE GetMultiBits(_, _, _, _)
GetMultiBits(pinset, pins, out, i) ==
  IF i > Len(pins) THEN [ret |-> OK, out |-> out]
  ELSE IF pins[i] >= NPINS THEN [ret |-> ENXIO, out |-> out]
  ELSE GetMultiBits(pinset, pins, Append(out, GetBit(pinset, pins[i])), i + 1)

\* Read the requested bits
skel_getmultibits(t) ==
  /\ pc[t] = "loop" /\ op[t] \in MultiReadOps /\ ~Panicked
  /\ LET r == GetMultiBits(loc[t].pinset, arg[t].pins, <<>>, 1) IN
       Goto(t, "unlock", [loc[t] EXCEPT !.ret = r.ret, !.out = r.out])
  /\ UNCHANGED <<exclsem, hwpins, notpins, op, arg>>
  /\ NoTopHalf
  /\ UNCHANGED nvicvars

\* skel_unlock(priv); return ret
skel_multi_unlock(t) ==
  /\ pc[t] = "unlock" /\ op[t] \in MultiPinOps /\ ~Panicked
  /\ skel_unlock
  /\ Goto(t, "done", [loc[t] EXCEPT !.held = FALSE])
  /\ UNCHANGED <<hwpins, notpins, op, arg>>
  /\ NoTopHalf
  /\ UNCHANGED nvicvars

skel_multipin(t) ==
  \/ /\ Callable(t)
     /\ \E pins \in PinLists : \E values \in ValueLists(Len(pins)) :
          skel_multiwritepin_call(t, pins, values)
  \/ /\ Callable(t)
     /\ \E pins \in PinLists : skel_multireadpin_call(t, pins)
  \/ /\ Callable(t)
     /\ \E pins \in PinLists : skel_multireadbuf_call(t, pins)
  \/ skel_multi_lock(t)
  \/ skel_multi_read(t)
  \/ skel_multiwritepin_loop(t)
  \/ skel_multiwritepin_write(t)
  \/ skel_getmultibits(t)
  \/ skel_multi_unlock(t)

(***************************************************************************)
(* The interrupt controller: efm32_irqinfo, up_disable_irq, up_enable_irq  *)
(***************************************************************************)

\* getreg32(addr): the Set Enable and the Clear Enable register of a pair
\* both read as the enable bits
getreg32(addr) ==
  IF addr = NVIC_SYSHCON THEN syshcon
  ELSE IF addr = NVIC_SYSTICK_CTRL THEN systick_ctrl
  ELSE IF addr = NVIC_ICTR THEN IctrValue
  ELSE IF addr = NVIC_VECTAB THEN vectab
  ELSE IF addr \in PriorityRegisters THEN nvic_priority[addr]
  ELSE IF \E r \in NvicWords : addr \in {NVIC_IRQ0_31_ENABLE + 4 * r,
                                         NVIC_IRQ0_31_CLEAR + 4 * r}
  THEN nvic_enable[CHOOSE r \in NvicWords :
                     addr \in {NVIC_IRQ0_31_ENABLE + 4 * r,
                               NVIC_IRQ0_31_CLEAR + 4 * r}]
  ELSE {}

\* putreg32(val, addr): a write to a Set Enable register sets the enable
\* bits written as 1, a write to a Clear Enable register clears them, and
\* both leave the bits written as 0 alone; the other registers take the
\* value written
putreg32(val, addr) ==
  /\ written' = written \cup {addr}
  /\ nvic_enable' =
       [r \in NvicWords |->
          IF addr = NVIC_IRQ0_31_ENABLE + 4 * r
          THEN nvic_enable[r] \cup val
          ELSE IF addr = NVIC_IRQ0_31_CLEAR + 4 * r
          THEN nvic_enable[r] \ val
          ELSE nvic_enable[r]]
  /\ syshcon' = IF addr = NVIC_SYSHCON THEN val ELSE syshcon
  /\ systick_ctrl' = IF addr = NVIC_SYSTICK_CTRL THEN val ELSE systick_ctrl
  /\ nvic_priority' = [a \in PriorityRegisters |->
                         IF a = addr THEN val ELSE nvic_priority[a]]
  /\ vectab' = IF addr = NVIC_VECTAB THEN val ELSE vectab

\* DEBUGASSERT(irq >= EFM32_IRQ_NMI && irq < NR_IRQS)
IrqPrecondition(i) == i >= EFM32_IRQ_NMI /\ i < NR_IRQS

\* an efm32_irqinfo that shifts by n, not by n & 0x1f
efm32_irqinfo_unmasked(i, offset) ==
  IF i >= EFM32_IRQ_INTERRUPTS
  THEN IF i < NR_VECTORS
       THEN LET n == i - EFM32_IRQ_INTERRUPTS IN
              [ret |-> OK, regaddr |-> NVIC_IRQ_ENABLE(n) + offset,
               bit |-> Shl1(n)]
       ELSE [ret |-> EINVAL, regaddr |-> 0, bit |-> {}]
  ELSE IF i = EFM32_IRQ_MEMFAULT
  THEN [ret |-> OK, regaddr |-> NVIC_SYSHCON, bit |-> NVIC_SYSHCON_MEMFAULTENA]
  ELSE IF i = EFM32_IRQ_BUSFAULT
  THEN [ret |-> OK, regaddr |-> NVIC_SYSHCON, bit |-> NVIC_SYSHCON_BUSFAULTENA]
  ELSE IF i = EFM32_IRQ_USAGEFAULT
  THEN [ret |-> OK, regaddr |-> NVIC_SYSHCON, bit |-> NVIC_SYSHCON_USGFAULTENA]
  ELSE IF i = EFM32_IRQ_SYSTICK
  THEN [ret |-> OK, regaddr |-> NVIC_SYSTICK_CTRL,
        bit |-> NVIC_SYSTICK_CTRL_ENABLE]
  ELSE [ret |-> EINVAL, regaddr |-> NVIC_SYSHCON, bit |-> {}]

\* an efm32_irqinfo without the test irq < NR_VECTORS
efm32_irqinfo_no_upper_test(i, offset) ==
  IF i >= EFM32_IRQ_INTERRUPTS
  THEN LET n == i - EFM32_IRQ_INTERRUPTS IN
         [ret |-> OK, regaddr |-> NVIC_IRQ_ENABLE(n) + offset,
          bit |-> Shl1(BitAnd(n, 31))]
  ELSE IF i = EFM32_IRQ_MEMFAULT
  THEN [ret |-> OK, regaddr |-> NVIC_SYSHCON, bit |-> NVIC_SYSHCON_MEMFAULTENA]
  ELSE IF i = EFM32_IRQ_BUSFAULT
  THEN [ret |-> OK, regaddr |-> NVIC_SYSHCON, bit |-> NVIC_SYSHCON_BUSFAULTENA]
  ELSE IF i = EFM32_IRQ_USAGEFAULT
  THEN [ret |-> OK, regaddr |-> NVIC_SYSHCON, bit |-> NVIC_SYSHCON_USGFAULTENA]
  ELSE IF i = EFM32_IRQ_SYSTICK
  THEN [ret |-> OK, regaddr |-> NVIC_SYSTICK_CTRL,
        bit |-> NVIC_SYSTICK_CTRL_ENABLE]
  ELSE [ret |-> EINVAL, regaddr |-> NVIC_SYSHCON, bit |-> {}]

\* efm32_irqinfo(irq, &regaddr, &bit, offset): the return value, and what is
\* left in *regaddr and *bit.  Where the function stores nothing the caller's
\* variable is not initialised; it is shown as empty, and no caller reads it
efm32_irqinfo(i, offset) ==
  IF i >= EFM32_IRQ_INTERRUPTS
  THEN IF i < NR_VECTORS
       THEN LET n == i - EFM32_IRQ_INTERRUPTS IN
              [ret |-> OK, regaddr |-> NVIC_IRQ_ENABLE(n) + offset,
               bit |-> Shl1(BitAnd(n, 31))]
       ELSE [ret |-> EINVAL, regaddr |-> 0, bit |-> {}]
  ELSE IF i = EFM32_IRQ_MEMFAULT
  THEN [ret |-> OK, regaddr |-> NVIC_SYSHCON, bit |-> NVIC_SYSHCON_MEMFAULTENA]
  ELSE IF i = EFM32_IRQ_BUSFAULT
  THEN [ret |-> OK, regaddr |-> NVIC_SYSHCON, bit |-> NVIC_SYSHCON_BUSFAULTENA]
  ELSE IF i = EFM32_IRQ_USAGEFAULT
  THEN [ret |-> OK, regaddr |-> NVIC_SYSHCON, bit |-> NVIC_SYSHCON_USGFAULTENA]
  ELSE IF i = EFM32_IRQ_SYSTICK
  THEN [ret |-> OK, regaddr |-> NVIC_SYSTICK_CTRL,
        bit |-> NVIC_SYSTICK_CTRL_ENABLE]
  ELSE [ret |-> EINVAL, regaddr |-> NVIC_SYSHCON, bit |-> {}]

\* the assertion of efm32_irqinfo has failed
IrqPanicked == irqpc = "abort"

\* the offset each of the two functions hands to efm32_irqinfo
IrqOffset(o) == IF o = "disable" THEN NVIC_CLRENA_OFFSET ELSE NVIC_ENA_OFFSET

\* if (efm32_irqinfo(irq, &regaddr, &bit, offset) == 0): the call of
\* up_disable_irq (o = "disable") or up_enable_irq (o = "enable") with irq = i,
\* up to the branch on the result
up_irq_call(o, i) ==
  /\ irqpc = "idle"
  /\ irqop' = o
  /\ irq' = i
  /\ written' = {}
  /\ regval' = {}
  /\ IF assertions /\ ~IrqPrecondition(i)
     THEN /\ irqpc' = "abort"
          /\ UNCHANGED <<irqret, regaddr, bit>>
     ELSE LET r == efm32_irqinfo(i, IrqOffset(o)) IN
            /\ irqret' = r.ret
            /\ regaddr' = r.regaddr
            /\ bit' = r.bit
            /\ irqpc' = IF r.ret # OK THEN "gpio"
                        ELSE IF i >= EFM32_IRQ_INTERRUPTS THEN "put"
                        ELSE "get"
  /\ UNCHANGED <<nvicregs, skelvars, assertions>>
  /\ UNCHANGED bootvars

\* putreg32(bit, regaddr): the write to the Clear Enable or Set Enable
\* register
up_irq_put(o) ==
  /\ irqpc = "put" /\ irqop = o
  /\ putreg32(bit, regaddr)
  /\ irqpc' = "dump"
  /\ UNCHANGED <<irqop, irq, irqret, regaddr, bit, regval, skelvars,
                 assertions>>
  /\ UNCHANGED bootvars

\* regval = getreg32(regaddr); regval &= ~bit (up_disable_irq) or
\* regval |= bit (up_enable_irq)
up_irq_get(o) ==
  /\ irqpc = "get" /\ irqop = o
  /\ regval' = IF o = "disable" THEN getreg32(regaddr) \ bit
                                ELSE getreg32(regaddr) \cup bit
  /\ irqpc' = "putback"
  /\ UNCHANGED <<nvicregs, irqop, irq, irqret, regaddr, bit, written,
                 skelvars, assertions>>
  /\ UNCHANGED bootvars

\* putreg32(regval, regaddr)
up_irq_putback(o) ==
  /\ irqpc = "putback" /\ irqop = o
  /\ putreg32(regval, regaddr)
  /\ irqpc' = "dump"
  /\ UNCHANGED <<irqop, irq, irqret, regaddr, bit, regval, skelvars,
                 assertions>>
  /\ UNCHANGED bootvars

\* efm32_irqinfo has failed: with CONFIG_EFM32_GPIO_IRQ the irq is handed to
\* efm32_gpioirqdisable or efm32_gpioirqenable, which act on the GPIO block;
\* without, nothing is done
up_irq_gpio(o) ==
  /\ irqpc = "gpio" /\ irqop = o
  /\ irqpc' = "dump"
  /\ UNCHANGED <<nvicregs, irqop, irq, irqret, regaddr, bit, regval, written,
                 skelvars, assertions>>
  /\ UNCHANGED bootvars

\* efm32_dumpnvic(...); the function returns
up_irq_return(o) ==
  /\ irqpc = "dump" /\ irqop = o
  /\ irqpc' = "idle"
  /\ irqop' = "none"
  /\ irq' = 0
  /\ irqret' = "none"
  /\ regaddr' = 0
  /\ bit' = {}
  /\ regval' = {}
  /\ written' = {}
  /\ UNCHANGED <<nvicregs, skelvars, assertions>>
  /\ UNCHANGED bootvars

up_irq(o) ==
  \/ \E i \in IrqArgs : up_irq_call(o, i)
  \/ up_irq_put(o)
  \/ up_irq_get(o)
  \/ up_irq_putback(o)
  \/ up_irq_gpio(o)
  \/ up_irq_return(o)

up_disable_irq == up_irq("disable")

up_enable_irq == up_irq("enable")

(***************************************************************************)
(* up_irqinitialize                                                        *)
(***************************************************************************)

\* what a step of up_irqinitialize that writes a register leaves alone
BootWriteFrame ==
  UNCHANGED <<irqpc, irqop, irq, irqret, regaddr, bit, regval, skelvars,
              assertions, config>>

\* what a step of up_irqinitialize that writes no register leaves alone
BootFrame == UNCHANGED <<nvicregs, irqlocals, skelvars, assertions, config>>

\* for (i = 0; i < NR_VECTORS - EFM32_IRQ_INTERRUPTS; i += 32)
\*   putreg32(0xffffffff, NVIC_IRQ_CLEAR(i)): the test, and one pass
up_irqinitialize_disable ==
  /\ bootpc = "disable"
  /\ IF bootloc.i < NR_VECTORS - EFM32_IRQ_INTERRUPTS
     THEN /\ putreg32(WordBits, NVIC_IRQ_CLEAR(bootloc.i))
          /\ bootloc' = [bootloc EXCEPT !.i = @ + 32]
          /\ UNCHANGED bootpc
          /\ BootWriteFrame
     ELSE /\ bootpc' = "vectab"
          /\ UNCHANGED bootloc
          /\ BootFrame
  /\ UNCHANGED <<attached, int_enabled, current_regs>>

\* putreg32((uint32_t)_vectors, NVIC_VECTAB), and with CONFIG_ARCH_RAMVECTORS
\* up_ramvec_initialize(), which may leave the table where it is or move it
\* to RAM
up_irqinitialize_vectab ==
  /\ bootpc = "vectab"
  /\ \E table \in (IF config.ramvectors THEN {"_vectors", "g_ram_vectors"}
                    ELSE {"_vectors"}) :
       putreg32(table, NVIC_VECTAB)
  /\ bootpc' = "sysh"
  /\ bootloc' = [bootloc EXCEPT !.regaddr = NVIC_SYSH4_7_PRIORITY]
  /\ BootWriteFrame
  /\ UNCHANGED <<attached, int_enabled, current_regs>>

\* putreg32(DEFPRIORITY32, NVIC_SYSH4_7_PRIORITY), then NVIC_SYSH8_11_PRIORITY,
\* then NVIC_SYSH12_15_PRIORITY: one of the three writes
up_irqinitialize_sysh ==
  /\ bootpc = "sysh"
  /\ putreg32(DEFPRIORITY32, bootloc.regaddr)
  /\ bootpc' = IF bootloc.regaddr = NVIC_SYSH12_15_PRIORITY THEN "ictr"
               ELSE "sysh"
  /\ bootloc' = [bootloc EXCEPT !.regaddr = @ + 4]
  /\ BootWriteFrame
  /\ UNCHANGED <<attached, int_enabled, current_regs>>

\* a count of priority registers taken as ICTR * 8
up_irqinitialize_ictr_no_plus_one ==
  /\ bootpc = "ictr"
  /\ bootloc' = [bootloc EXCEPT !.num = getreg32(NVIC_ICTR) * 8,
                                !.regaddr = NVIC_IRQ0_3_PRIORITY]
  /\ bootpc' = "priority"
  /\ BootFrame
  /\ UNCHANGED <<attached, int_enabled, current_regs>>

\* num_priority_registers = (getreg32(NVIC_ICTR) + 1) * 8;
\* regaddr = NVIC_IRQ0_3_PRIORITY
up_irqinitialize_ictr ==
  /\ bootpc = "ictr"
  /\ bootloc' = [bootloc EXCEPT !.num = (getreg32(NVIC_ICTR) + 1) * 8,
                                !.regaddr = NVIC_IRQ0_3_PRIORITY]
  /\ bootpc' = "priority"
  /\ BootFrame
  /\ UNCHANGED <<attached, int_enabled, current_regs>>

\* while (num_priority_registers--)
\*   { putreg32(DEFPRIORITY32, regaddr); regaddr += 4; }: the test, and one
\* pass
up_irqinitialize_priority ==
  /\ bootpc = "priority"
  /\ IF bootloc.num # 0
     THEN /\ putreg32(DEFPRIORITY32, bootloc.regaddr)
          /\ bootloc' = [bootloc EXCEPT !.num = @ - 1, !.regaddr = @ + 4]
          /\ UNCHANGED bootpc
          /\ BootWriteFrame
     ELSE /\ bootpc' = "attach"
          /\ UNCHANGED bootloc
          /\ BootFrame
  /\ UNCHANGED <<attached, int_enabled, current_regs>>

\* CURRENT_REGS = NULL; irq_attach(EFM32_IRQ_SVCALL, up_svcall, NULL);
\* irq_attach(EFM32_IRQ_HARDFAULT, up_hardfault, NULL)
up_irqinitialize_attach ==
  /\ bootpc = "attach"
  /\ current_regs' = NULL
  /\ attached' = attached \cup {EFM32_IRQ_SVCALL, EFM32_IRQ_HARDFAULT}
  /\ bootpc' = "syscall"
  /\ BootFrame
  /\ UNCHANGED <<bootloc, int_enabled>>

\* with CONFIG_ARMV7M_USEBASEPRI,
\* efm32_prioritize_syscall(NVIC_SYSH_SVCALL_PRIORITY):
\* regval = getreg32(NVIC_SYSH8_11_PRIORITY);
\* regval &= ~NVIC_SYSH_PRIORITY_PR11_MASK;
\* regval |= (priority << NVIC_SYSH_PRIORITY_PR11_SHIFT);
\* putreg32(regval, NVIC_SYSH8_11_PRIORITY)
efm32_prioritize_syscall ==
  /\ bootpc = "syscall"
  /\ IF config.usebasepri
     THEN /\ putreg32([getreg32(NVIC_SYSH8_11_PRIORITY)
                         EXCEPT ![4] = NVIC_SYSH_SVCALL_PRIORITY],
                      NVIC_SYSH8_11_PRIORITY)
          /\ BootWriteFrame
     ELSE BootFrame
  /\ bootpc' = "mpu"
  /\ UNCHANGED <<bootloc, attached, int_enabled, current_regs>>

\* with CONFIG_ARM_MPU, irq_attach(EFM32_IRQ_MEMFAULT, up_memfault, NULL) and
\* up_enable_irq(EFM32_IRQ_MEMFAULT), whose read, modify and write of the
\* register efm32_irqinfo names are made here
up_irqinitialize_mpu ==
  /\ bootpc = "mpu"
  /\ IF config.mpu
     THEN LET r == efm32_irqinfo(EFM32_IRQ_MEMFAULT, NVIC_ENA_OFFSET) IN
            /\ putreg32(getreg32(r.regaddr) \cup r.bit, r.regaddr)
            /\ attached' = attached \cup {EFM32_IRQ_MEMFAULT}
            /\ BootWriteFrame
     ELSE /\ UNCHANGED attached
          /\ BootFrame
  /\ bootpc' = "exceptions"
  /\ UNCHANGED <<bootloc, int_enabled, current_regs>>

\* with CONFIG_DEBUG_FEATURES, the handlers of the other processor exceptions
\* are attached; then efm32_dumpnvic("initial", NR_VECTORS)
up_irqinitialize_exceptions ==
  /\ bootpc = "exceptions"
  /\ attached' =
       IF config.debug
       THEN attached \cup {EFM32_IRQ_NMI, EFM32_IRQ_MEMFAULT,
                           EFM32_IRQ_BUSFAULT, EFM32_IRQ_USAGEFAULT,
                           EFM32_IRQ_PENDSV, EFM32_IRQ_DBGMONITOR,
                           EFM32_IRQ_RESERVED}
       ELSE attached
  /\ bootpc' = "gpio"
  /\ BootFrame
  /\ UNCHANGED <<bootloc, int_enabled, current_regs>>

\* unless CONFIG_SUPPRESS_INTERRUPTS, with CONFIG_EFM32_GPIO_IRQ:
\* efm32_gpioirqinitialize(), which sets up the second level of interrupt
\* decoding for the GPIO pins.  It may attach handlers to the two GPIO
\* vectors and enable them at the NVIC, or leave that to later
up_irqinitialize_gpio ==
  /\ bootpc = "gpio"
  /\ IF ~config.suppress /\ config.gpio_irq
     THEN \E vectors \in {{}, GpioVectors} :
            /\ attached' = attached \cup vectors
            /\ nvic_enable' =
                 [r \in NvicWords |->
                    nvic_enable[r] \cup
                      {(v - EFM32_IRQ_INTERRUPTS) % 32 :
                         v \in {u \in vectors :
                                  (u - EFM32_IRQ_INTERRUPTS) \div 32 = r}}]
     ELSE UNCHANGED <<attached, nvic_enable>>
  /\ bootpc' = "enable"
  /\ UNCHANGED <<syshcon, systick_ctrl, nvic_priority, vectab, irqlocals,
                 skelvars, assertions, config, bootloc, int_enabled,
                 current_regs>>

\* unless CONFIG_SUPPRESS_INTERRUPTS, up_irq_enable(): "And finally, enable
\* interrupts"; the function returns
up_irqinitialize_enable ==
  /\ bootpc = "enable"
  /\ int_enabled' = (int_enabled \/ ~config.suppress)
  /\ bootpc' = "done"
  /\ bootloc' = NoBootLoc
  /\ BootFrame
  /\ UNCHANGED <<attached, current_regs>>

up_irqinitialize ==
  \/ up_irqinitialize_disable
  \/ up_irqinitialize_vectab
  \/ up_irqinitialize_sysh
  \/ up_irqinitialize_ictr
  \/ up_irqinitialize_priority
  \/ up_irqinitialize_attach
  \/ efm32_prioritize_syscall
  \/ up_irqinitialize_mpu
  \/ up_irqinitialize_exceptions
  \/ up_irqinitialize_gpio
  \/ up_irqinitialize_enable

(***************************************************************************)
(* Specifications                                                          *)
(***************************************************************************)

\* the callback registry alone: client threads attach callbacks
NextAttach ==
  \E t \in Threads :
    \/ skel_attach(t, MaxAttach, Callbacks \cup {NULL})
    \/ caller_continues(t)

\* a build with DEBUGASSERT compiled in
InitAsserting == Init /\ assertions = TRUE

SpecAttach == InitAsserting /\ [][NextAttach]_vars

\* the pin control operations of one client thread
NextPins ==
  \E t \in {"t1"} :
    \/ skel_singlepin(t)
    \/ skel_multipin(t)
    \/ caller_continues(t)

SpecPins == Init /\ [][NextPins]_vars

\* interrupt dispatch: one client thread attaches callbacks while pin
\* interrupts are raised and dispatched
NextIrq ==
  \/ \E t \in {"t1"} :
       \/ skel_attach(t, NCALLBACKS, Callbacks)
       \/ caller_continues(t)
  \/ PinEvent
  \/ skel_interrupt
  \/ skel_irqworker

SpecIrq == InitAsserting /\ [][NextIrq]_vars

\* the HPWORK thread runs the work it was given, handlers return, and an
\* interrupt that is raised and enabled is taken
FairIrq == WF_vars(skel_irqworker) /\ WF_vars(skel_interrupt)

\* interrupt dispatch with one skel_attach call
NextDispatch ==
  \/ \E t \in {"t1"} :
       \/ skel_attach(t, 1, Callbacks)
       \/ caller_continues(t)
  \/ PinEvent
  \/ skel_interrupt
  \/ skel_irqworker

SpecDispatch == InitAsserting /\ [][NextDispatch]_vars

SpecDispatchFair == InitAsserting /\ [][NextDispatch]_vars /\ FairIrq

\* a client thread attaches, first perhaps with a NULL callback, while pin
\* interrupts are raised and the bottom half reads the table
NextRace ==
  \/ \E t \in {"t1"} :
       \/ skel_attach(t, 2, {NULL, "cbA"})
       \/ caller_continues(t)
  \/ PinEvent
  \/ skel_interrupt
  \/ skel_irqworker

SpecRace == InitAsserting /\ [][NextRace]_vars

\* every line and every exception that can be enabled is enabled, and other
\* bits of the two system registers are set
AllEnabled ==
  /\ nvic_enable = [r \in NvicWords |->
                      {k \in WordBits : 32 * r + k < NEXTINT}]
  /\ syshcon = NVIC_SYSHCON_MEMFAULTENA \cup NVIC_SYSHCON_BUSFAULTENA
                 \cup NVIC_SYSHCON_USGFAULTENA \cup Shl1(0)
  /\ systick_ctrl = NVIC_SYSTICK_CTRL_ENABLE \cup Shl1(1) \cup Shl1(2)

\* the interrupt controller in a state left by earlier use: nothing enabled,
\* or everything
InitNvic ==
  skel_initialize /\ (NvicReset \/ AllEnabled) /\ NoIrqCall /\ IrqInitialized

\* calls of up_disable_irq and up_enable_irq, one after another
NextNvic ==
  \/ up_disable_irq
  \/ up_enable_irq

SpecNvic == InitNvic /\ [][NextNvic]_vars

\* every priority field holds v
AllPriorities(v) ==
  nvic_priority = [a \in PriorityRegisters |-> [f \in 1 .. 4 |-> v]]

\* the system as up_irqinitialize finds it: interrupts disabled at the
\* processor, no handler attached, and the controller out of reset or left
\* with everything enabled and every priority at its lowest
InitBoot ==
  /\ skel_initialize
  /\ NoIrqCall
  /\ \/ NvicReset /\ AllPriorities(0)
     \/ AllEnabled /\ AllPriorities(255)
  /\ vectab = "reset"
  /\ bootpc = "disable"
  /\ bootloc = NoBootLoc
  /\ config \in Builds
  /\ attached = {}
  /\ int_enabled = FALSE
  /\ current_regs = NULL

SpecBoot == InitBoot /\ [][up_irqinitialize]_vars

\* the lock under contention: one client thread calls the pin control
\* operations, each with a pin in range and with a pin out of range, while
\* another calls skel_attach, and their waits for the lock may fail
Lowest == 0

PinCaller == "t1"
Attacher == "t2"

NextLock ==
  \/ \E t \in {PinCaller} :
       \/ \E pin \in {Lowest, NPINS} :
            skel_direction_call(t, pin, IOEXPANDER_DIRECTION_IN)
       \/ \E opt \in {IOEXPANDER_OPTION_INVERT, "OTHER"} :
            skel_option_call(t, Lowest, opt)
       \/ skel_writepin_call(t, Lowest, TRUE)
       \/ skel_readpin_call(t, Lowest)
       \/ skel_readbuf_call(t, Lowest)
       \/ \E pin \in {Lowest, NPINS} :
            skel_multiwritepin_call(t, <<pin>>, <<TRUE>>)
       \/ \E pin \in {Lowest, NPINS} : skel_multireadpin_call(t, <<pin>>)
       \/ \E pin \in {Lowest, NPINS} : skel_multireadbuf_call(t, <<pin>>)
       \/ skel_pin_lock(t) \/ skel_pin_txn(t) \/ skel_pin_unlock(t)
       \/ skel_multi_lock(t) \/ skel_multi_read(t)
       \/ skel_multiwritepin_loop(t) \/ skel_multiwritepin_write(t)
       \/ skel_getmultibits(t) \/ skel_multi_unlock(t)
  \/ \E t \in {Attacher} :
       \/ skel_attach_call(t, 1, "cbA", NCALLBACKS)
       \/ skel_attach_lock(t) \/ skel_attach_scan(t)
       \/ skel_attach_store(t) \/ skel_attach_unlock(t)
  \/ \E t \in Threads :
       \/ skel_lock_retry(t)
       \/ caller_continues(t)

SpecLock == Init /\ [][NextLock]_vars

\* handlers that call back into the driver: a client thread attaches a
\* handler and writes a pin; the HPWORK thread runs the bottom half, and a
\* handler it invokes may read or write a pin before it returns
Client == "t1"
Hpwork == "t2"

\* a handler calls a pin control operation
handler_calls ==
  /\ wpc = "call"
  /\ \/ skel_readpin_call(Hpwork, Lowest)
     \/ skel_writepin_call(Hpwork, Lowest, FALSE)

\* the operation the handler called runs in the HPWORK thread
handler_operation ==
  skel_pin_lock(Hpwork) \/ skel_pin_txn(Hpwork) \/ skel_pin_unlock(Hpwork)

\* a handler that called nothing, or nothing yet, returns
handler_returns == pc[Hpwork] = "idle" /\ skel_irqworker_cbreturn

\* a handler returns after the operation it called has returned
handler_returns_from_call ==
  /\ ~Panicked
  /\ wpc = "call" /\ pc[Hpwork] = "done"
  /\ wi' = wi + 1
  /\ wpc' = WorkerNext(wi)
  /\ pc' = [pc EXCEPT ![Hpwork] = "idle"]
  /\ op' = [op EXCEPT ![Hpwork] = "none"]
  /\ arg' = [arg EXCEPT ![Hpwork] = NoArg]
  /\ loc' = [loc EXCEPT ![Hpwork] = NoLoc]
  /\ UNCHANGED <<devvars, wpinset, wfail, wcalls, wsettled, wenables, alog,
                 assertions>>
  /\ NoTopHalf
  /\ UNCHANGED nvicvars

\* the steps of the bottom half and of the handlers it invokes
bottom_half ==
  \/ skel_irqworker_start
  \/ skel_irqworker_read
  \/ skel_irqworker_eval
  \/ handler_returns
  \/ handler_returns_from_call
  \/ skel_irqworker_reenable
  \/ skel_irqworker_return

\* the steps of the client between skel_lock and skel_unlock
client_in_lock ==
  \/ skel_pin_txn(Client) \/ skel_pin_unlock(Client)
  \/ skel_attach_scan(Client) \/ skel_attach_store(Client)
  \/ skel_attach_unlock(Client)

NextCallback ==
  \/ skel_attach_call(Client, 1, "cbA", 1)
  \/ skel_attach_lock(Client)
  \/ skel_writepin_call(Client, Lowest, TRUE)
  \/ skel_pin_lock(Client)
  \/ client_in_lock
  \/ caller_continues(Client)
  \/ PinEvent
  \/ skel_interrupt
  \/ bottom_half
  \/ handler_calls
  \/ handler_operation

SpecCallback == Init /\ [][NextCallback]_vars

\* the HPWORK thread and the client go on while they can, and a thread that
\* waits for the lock gets it when it is released again and again
FairCallback ==
  /\ WF_vars(bottom_half)
  /\ WF_vars(skel_pin_txn(Hpwork) \/ skel_pin_unlock(Hpwork))
  /\ SF_vars(skel_pin_lock(Hpwork))
  /\ WF_vars(client_in_lock)

SpecCallbackFair == Init /\ [][NextCallback]_vars /\ FairCallback

(***************************************************************************)
(* The callback registry                                                   *)
(***************************************************************************)

\* the number of occupied entries of a callback table
ActiveEntries(table) == Cardinality({k \in Slots : table[k].cbfunc # NULL})

FreeSlots(table) == {k \in Slots : table[k].cbfunc = NULL}

\* thread t has returned from skel_attach
Attached(t) == pc[t] = "done" /\ op[t] = "attach"

\* C1: a skel_attach call with a non-null callback that finds a free slot
\* occupies exactly the lowest free slot with (pinset, callback) and leaves
\* every other slot as it was.
C1_AttachFillsOnlyFirstFree ==
  \A t \in Threads :
    LET free == FreeSlots(loc[t].pre) IN
      (Attached(t) /\ arg[t].cbfunc # NULL /\ free # {}) =>
         LET first == CHOOSE k \in free : \A m \in free : k <= m IN
           /\ loc[t].post[first] =
                [pinset |-> arg[t].pinset, cbfunc |-> arg[t].cbfunc]
           /\ \A k \in Slots \ {first} : loc[t].post[k] = loc[t].pre[k]

\* C2: from the empty registry, attach calls with non-null callbacks return
\* success NCALLBACKS times, and the call after those returns -ENOSPC.
C2_AttachSucceedsCapacityTimes ==
  (\A j \in 1 .. Len(alog) : ~alog[j].null) =>
    \A j \in 1 .. Len(alog) :
      alog[j].ret = IF j <= NCALLBACKS THEN OK ELSE ENOSPC

\* C3: a skel_attach call that returns -ENOSPC has left every entry of the
\* table as it was, all NCALLBACKS of them occupied, and has released the lock.
C3_FailedAttachChangesNothing ==
  \A t \in Threads :
    (Attached(t) /\ loc[t].ret = ENOSPC) =>
      /\ loc[t].post = loc[t].pre
      /\ ActiveEntries(loc[t].post) = NCALLBACKS
      /\ ~loc[t].held
      /\ loc[t].sem = 1

C3_Witness == \E t \in Threads : Attached(t) /\ loc[t].ret = ENOSPC

(***************************************************************************)
(* Interrupt dispatch                                                      *)
(***************************************************************************)

\* the calls of this cycle made for slot k
CallsFor(k) == {j \in 1 .. Len(wcalls) : wcalls[j].slot = k}

\* the calls of this cycle made to handler fn
CallsTo(fn) == {j \in 1 .. Len(wcalls) : wcalls[j].fn = fn}

\* a bottom half cycle has evaluated every entry and re-enabled the source
CycleDone == wpc = "done"

\* C4: at the end of a bottom half cycle with event pinset E, the handler of
\* every entry that was occupied when the cycle began has been invoked exactly
\* when E & interest # 0, once, with E & interest; no free entry was invoked.
C4_DispatchMatchesInterest ==
  CycleDone =>
    /\ \A k \in wsettled :
         LET m == BitAnd(wpinset, cb[k].pinset) IN
           IF m # 0
           THEN \E j \in 1 .. Len(wcalls) :
                  /\ CallsFor(k) = {j}
                  /\ wcalls[j].fn = cb[k].cbfunc
                  /\ wcalls[j].arg = m
           ELSE CallsFor(k) = {}
    /\ \A k \in Slots : cb[k].cbfunc = NULL => CallsFor(k) = {}
    /\ \A j \in 1 .. Len(wcalls) : wcalls[j].fn # NULL

\* a cycle in which a handler was invoked with less than the event pinset
C4_Witness ==
  /\ CycleDone
  /\ \E k \in wsettled :
       /\ BitAnd(wpinset, cb[k].pinset) # 0
       /\ BitAnd(wpinset, cb[k].pinset) # wpinset
       /\ CallsFor(k) # {}

\* C5: after attach(I_A, cbA) and attach(I_B, cbB) on the empty registry both
\* calls have returned success, and a bottom half cycle with event pinset E
\* invokes cbA at most once, only with E & I_A # 0 as its argument, and cbB at
\* most once, only with E & I_B # 0 as its argument.  (I_A is the interest
\* the first call stored in slot 0; I_B is the argument of the second call.)
C5_TwoCallbacksScenario ==
  \A t \in Threads :
    (/\ Len(alog) = 2 /\ Attached(t)
     /\ cb[0].cbfunc = "cbA" /\ arg[t].cbfunc = "cbB"
     /\ ~alog[1].null) =>
       /\ alog[1].ret = OK
       /\ alog[2].ret = OK
       /\ CycleDone =>
            /\ Cardinality(CallsTo("cbA")) <= 1
            /\ \A j \in CallsTo("cbA") :
                 /\ wcalls[j].arg = BitAnd(wpinset, cb[0].pinset)
                 /\ wcalls[j].arg # 0
            /\ Cardinality(CallsTo("cbB")) <= 1
            /\ \A j \in CallsTo("cbB") :
                 /\ wcalls[j].arg = BitAnd(wpinset, arg[t].pinset)
                 /\ wcalls[j].arg # 0

\* the bottom halves that are queued or running
Outstanding == workq + (IF wpc = "idle" THEN 0 ELSE 1)

\* a top half ran in this step
TopHalfRan == isr_last' \in {"scheduled", "skipped"}

\* C6: at most one bottom half is outstanding, and a top half that fires while
\* one is outstanding queues nothing, disables nothing and changes nothing.
C6_AtMostOneBottomHalf ==
  /\ [](Outstanding <= 1)
  /\ [][(work_pending /\ TopHalfRan) =>
          /\ isr_last' = "skipped"
          /\ UNCHANGED <<devvars, wvars, cvars, alog>>]_vars

\* the top half fired while a bottom half was outstanding
C6_Witness == isr_last = "skipped" /\ work_pending

\* C7: while a bottom half is queued, or running before its re-enable step,
\* the interrupt source is disabled.
C7_SourceDisabledWhileOutstanding ==
  (workq > 0 \/ wpc \in {"read", "loop", "call", "reenable"}) => ~irq_enabled

\* the pin interrupt condition is raised again while a handler runs
C7_Witness == wpc = "call" /\ ~wfail /\ intstat # 0 /\ ~irq_enabled

\* C8: a bottom half cycle whose status read failed has invoked no callback,
\* has re-enabled the interrupt source, and has not stopped the system.
C8_FailedReadInvokesNothing ==
  (CycleDone /\ wfail) =>
    /\ wcalls = <<>>
    /\ irq_enabled
    /\ wenables = 1
    /\ ~Panicked

(***************************************************************************)
(* Pin indices out of range                                                *)
(***************************************************************************)

\* the errors that report a bad argument
ArgumentErrors == {ENXIO, EINVAL}

\* thread t is in, or has returned from, an operation
InCall(t) == pc[t] # "idle"

\* C9: a single-pin operation called with pin >= NPINS never acquires the lock,
\* makes no bus transaction, and returns an argument error.
C9_SinglePinRangeChecked ==
  \A t \in Threads :
    (InCall(t) /\ op[t] \in SinglePinOps /\ arg[t].pin >= NPINS) =>
      /\ ~loc[t].acq
      /\ loc[t].nrd = 0 /\ loc[t].nwr = 0
      /\ pc[t] = "done" => loc[t].ret \in ArgumentErrors

\* the positions of a pin list that hold an index out of range
BadPositions(pins) == {i \in 1 .. Len(pins) : pins[i] >= NPINS}

FirstBad(pins) ==
  CHOOSE i \in BadPositions(pins) : \A m \in BadPositions(pins) : i <= m

MultiWritten(t) ==
  pc[t] = "done" /\ op[t] = "multiwritepin" /\ loc[t].ret = OK

\* C17: a skel_multiwritepin call that returned success has made exactly one
\* read and exactly one write bus transaction, whatever the length of its
\* list.
C17_OneReadOneWrite ==
  \A t \in Threads : MultiWritten(t) => (loc[t].nrd = 1 /\ loc[t].nwr = 1)

\* a successful multi-pin write of as many pins as the expander has
C17_Witness ==
  \E t \in Threads :
    /\ MultiWritten(t)
    /\ Len(arg[t].pins) = NPINS
    /\ \A i, j \in 1 .. NPINS : i # j => arg[t].pins[i] # arg[t].pins[j]

\* the entries of a pin list that name pin p
Listing(pins, p) == {i \in 1 .. Len(pins) : pins[i] = p}

\* the last entry of a pin list that names pin p
LastListing(pins, p) ==
  CHOOSE i \in Listing(pins, p) : \A m \in Listing(pins, p) : m <= i

\* C18: after a successful skel_multiwritepin with every index in range, each
\* pin of the expander that is listed has the value of the last entry that
\* lists it, and each pin that is not listed has the level it had in the
\* pinset read.
C18_WriteBackMerges ==
  \A t \in Threads :
    (MultiWritten(t) /\ BadPositions(arg[t].pins) = {}) =>
      \A p \in 0 .. (NPINS - 1) :
        TestBit(hwpins, p) =
          IF Listing(arg[t].pins, p) = {}
          THEN TestBit(loc[t].rd, p)
          ELSE arg[t].values[LastListing(arg[t].pins, p)]

\* a pin listed twice, set and then cleared, while another pin read as high
\* was not listed
C18_Witness ==
  \E t \in Threads :
    /\ MultiWritten(t)
    /\ \E i, j \in 1 .. Len(arg[t].pins) :
         /\ i < j /\ arg[t].pins[i] = arg[t].pins[j]
         /\ arg[t].values[i] /\ ~arg[t].values[j]
    /\ \E p \in 0 .. (NPINS - 1) :
         Listing(arg[t].pins, p) = {} /\ TestBit(loc[t].rd, p)

(***************************************************************************)
(* The top half and the lock; the lifetime of a registration               *)
(***************************************************************************)

\* the device raises its interrupt and the source is enabled
InterruptRaised == irq_enabled /\ intstat # 0 /\ ~Panicked

\* C14: the top half, in either of its branches, leaves the lock, the state
\* of the expander behind the bus and every thread as they are, and it can run
\* whenever the interrupt is raised, whoever holds the lock.
C14_TopHalfNeverBlocks ==
  /\ [][TopHalfRan => UNCHANGED <<exclsem, hwpins, intstat, cvars, wvars>>]_vars
  /\ [](InterruptRaised => ENABLED skel_interrupt)

\* the top half has queued the bottom half while a thread held the lock
C14_Witness ==
  /\ isr_last = "scheduled"
  /\ exclsem = 0
  /\ \E t \in Threads : loc[t].held

Reenabled == wpc = "done" /\ wenables = 1

\* C15: a bottom half that is queued is run up to its re-enable step, and the
\* interrupt source does not stay disabled.
C15_BottomHalfCompletes ==
  /\ (workq > 0) ~> Reenabled
  /\ (~irq_enabled) ~> irq_enabled

\* a bottom half in which a handler is running
C15_Witness == wpc = "call" /\ Len(wcalls) = 1 /\ ~irq_enabled

\* a pin interrupt condition is pending in the expander while a bottom half
\* that has already read the status is running
RaisedWhileOutstanding ==
  wpc \in {"loop", "call", "reenable"} /\ intstat # 0

\* C16: a pin interrupt condition raised while a bottom half is outstanding
\* leads to a further top half that queues a bottom half, and to a further
\* bottom half cycle that reads the status.
C16_PendingInterruptNotLost ==
  /\ RaisedWhileOutstanding ~> (isr_last = "scheduled")
  /\ RaisedWhileOutstanding ~> (wpc = "read")

\* the condition is still pending when the bottom half has re-enabled the
\* source
C16_Witness == Reenabled /\ intstat # 0 /\ irq_enabled /\ ~wfail

(***************************************************************************)
(* The exclusive access lock                                               *)
(***************************************************************************)

\* the threads that own the lock
Holders == {t \in Threads : loc[t].held}

\* the positions between skel_lock and skel_unlock
InsideLock == {"txn", "read", "loop", "write", "scan", "store", "unlock"}

\* C11: a thread that has returned from a pin control operation or from
\* skel_attach does not hold the lock, and the lock is free whenever no thread
\* is between skel_lock and skel_unlock.
C11_LockReleasedOnReturn ==
  /\ \A t \in Threads : pc[t] = "done" => ~loc[t].held
  /\ \A t \in Threads : loc[t].held => pc[t] \in InsideLock
  /\ exclsem + Cardinality(Holders) = 1

\* an operation has returned an error under the lock, and another thread
\* has acquired the lock after it
C11_Witness ==
  /\ pc[PinCaller] = "done" /\ loc[PinCaller].acq
  /\ loc[PinCaller].ret = ENXIO
  /\ loc[Attacher].held

\* thread t returns from skel_lock in this step
LockReturns(t) == pc[t] = "lock" /\ pc'[t] \notin {"lock", "abort"}

\* skel_lock returns to its caller only with a sem_wait that succeeded, and a
\* thread past skel_lock owns the lock alone
ReturnsWithOwnership ==
  /\ [](\A t \in Threads : pc[t] \in InsideLock => Holders = {t})
  /\ [][\A t \in Threads :
          LockReturns(t) =>
            exclsem > 0 /\ exclsem' = exclsem - 1 /\ loc'[t].held]_vars

C12_HandlerReentryProceeds ==
  /\ [](wpc = "call" => exclsem + Cardinality(Holders) = 1)
  /\ (wpc = "call" /\ pc[Hpwork] = "lock") ~> (pc[Hpwork] = "done")

\* the operation a handler called owns the lock while the client waits for it
C12_Witness ==
  /\ wpc = "call"
  /\ loc[Hpwork].held
  /\ pc[Client] = "lock"

\* the bottom half makes its status read in this step
StatusRead == wpc = "read" /\ wpc' = "loop"

\* C13: a thread that is at a bus transaction of a pin control operation owns
\* the lock, and the bottom half makes its status read with the lock taken
\* and owned by no client thread.
C13_BusUnderLock ==
  /\ [](\A t \in Threads :
          pc[t] \in {"txn", "read", "write"} => Holders = {t})
  /\ [][StatusRead => (exclsem = 0 /\ Holders = {})]_vars

(***************************************************************************)
(* The order of a bottom half cycle                                        *)
(***************************************************************************)

\* the bottom half makes its request to re-enable the source in this step
ReenableRequested == wenables' > wenables \/ (~irq_enabled /\ irq_enabled')

\* C21: the request to re-enable the source is made when every entry of the
\* table has been evaluated and no handler is running, and a cycle makes it
\* exactly once.
C21_ReenableLastAndOnce ==
  /\ [](wenables <= 1)
  /\ [](CycleDone => wenables = 1)
  /\ [](wpc \in {"read", "loop", "call", "reenable"} => wenables = 0)
  /\ [][ReenableRequested =>
          (wi = NCALLBACKS /\ wpc = "reenable" /\ wenables' = wenables + 1)]_vars

\* a cycle that invoked the handler of every entry has re-enabled the source
C21_Witness ==
  /\ CycleDone
  /\ \A k \in Slots : CallsFor(k) # {}
  /\ irq_enabled

\* a handler is invoked in this step
HandlerInvoked == Len(wcalls') > Len(wcalls)

Inside == {t \in Threads : pc[t] \in InsideLock}

\* sem_post is called in this step
Released == exclsem' = exclsem + 1

\* C23: at most one thread is between skel_lock and skel_unlock; the count of
\* exclsem is 0 or 1; and the lock is released only by the thread that
\* acquired it.
C23_MutualExclusion ==
  /\ [](Cardinality(Inside) <= 1)
  /\ [](exclsem \in {0, 1})
  /\ [](exclsem = 0 <=> Inside # {})
  /\ [][Released =>
          \E t \in Threads : loc[t].held /\ ~loc'[t].held /\ loc[t].acq]_vars

\* a thread is inside while the other one, which has not been interrupted,
\* waits for the lock
C23_Witness ==
  /\ pc[PinCaller] \in InsideLock
  /\ pc[Attacher] = "lock" /\ loc[Attacher].err = "none"
  /\ exclsem = 0

(***************************************************************************)
(* The multi-pin read and the direction precondition                       *)
(***************************************************************************)

\* thread t has returned success from skel_multireadpin or skel_multireadbuf
MultiRead(t) ==
  pc[t] = "done" /\ op[t] \in MultiReadOps /\ loc[t].ret = OK

\* C24: after a multi-pin read with every index in range, values[i] is true
\* exactly when bit pins[i] of the pinset read from the device is set, for
\* every entry i of the list.
C24_ValuesAreListedBits ==
  \A t \in Threads :
    (MultiRead(t) /\ BadPositions(arg[t].pins) = {}) =>
      /\ Len(loc[t].out) = Len(arg[t].pins)
      /\ \A i \in 1 .. Len(arg[t].pins) :
           loc[t].out[i] = TestBit(loc[t].rd, arg[t].pins[i])

\* C25: skel_direction called with a pin of the expander and either direction
\* passes its precondition assertion and goes on to acquire the lock.
C25_DirectionAccepted ==
  \A t \in Threads :
    (InCall(t) /\ op[t] = "direction" /\ arg[t].pin < NPINS
       /\ arg[t].dir \in {IOEXPANDER_DIRECTION_IN, IOEXPANDER_DIRECTION_OUT})
      => pc[t] # "abort"

(***************************************************************************)
(* Detaching                                                               *)
(***************************************************************************)

\* thread t has returned from skel_attach(pinset, NULL), called after thread
\* u's skel_attach(pinset, callback) with the same pinset returned success on
\* the empty table
DetachedAfter(u, t) ==
  /\ Attached(u) /\ Attached(t)
  /\ Len(alog) = 2 /\ ~alog[1].null /\ alog[1].ret = OK /\ alog[2].null
  /\ arg[u].cbfunc # NULL /\ arg[t].cbfunc = NULL
  /\ arg[u].pinset = arg[t].pinset

\* C26: after attach(pinset, callback) followed by attach(pinset, NULL) no
\* entry of the table holds the callback any more (so that no later bottom
\* half can invoke it), and the slot it had is free again.
C26_NullCallbackDetaches ==
  \A u, t \in Threads :
    DetachedAfter(u, t) => \A k \in Slots : cb[k].cbfunc # arg[u].cbfunc

(***************************************************************************)
(* The multi-pin write of a list with an index out of range                *)
(***************************************************************************)

\* thread t is in a skel_multiwritepin call whose list holds an index out of
\* range
WritingBadList(t) ==
  /\ op[t] = "multiwritepin" /\ pc[t] \notin {"idle", "done"}
  /\ BadPositions(arg[t].pins) # {}

\* thread t has returned from such a call
WroteBadList(t) ==
  /\ op[t] = "multiwritepin" /\ pc[t] = "done"
  /\ BadPositions(arg[t].pins) # {}

\* C27: a skel_multiwritepin call whose list holds an index out of range, at
\* any position, returns -ENXIO with no write bus transaction made and the
\* lock released, and no step of the call changes the pin state of the
\* device, whatever the entries before the index did to the local pinset.
C27_BadListWritesNothing ==
  /\ [](\A t \in Threads :
          WroteBadList(t) =>
            /\ loc[t].ret = ENXIO
            /\ loc[t].nwr = 0
            /\ loc[t].acq /\ ~loc[t].held
            /\ exclsem = 1)
  /\ [][(\E t \in Threads : WritingBadList(t)) => hwpins' = hwpins]_vars

\* the call has returned -ENXIO for a list whose first entry is in range,
\* after that entry changed the local copy of the pinset read
C27_Witness ==
  \E t \in Threads :
    /\ WroteBadList(t)
    /\ FirstBad(arg[t].pins) > 1
    /\ loc[t].pinset # loc[t].rd
    /\ loc[t].ret = ENXIO

(***************************************************************************)
(* skel_attach against a running bottom half                               *)
(***************************************************************************)

\* the interest pinset registered together with the handler of entry k: the
\* argument of the skel_attach call that is storing into the entry, or what
\* the entry holds when no call is
RegisteredInterest(k) ==
  IF \E t \in Threads : pc[t] = "store" /\ loc[t].i = k
  THEN LET t == CHOOSE u \in Threads : pc[u] = "store" /\ loc[u].i = k IN
         arg[t].pinset
  ELSE cb[k].pinset

ExternalIrq(i) == i >= EFM32_IRQ_INTERRUPTS /\ i < NR_VECTORS

\* the exceptions that can be enabled and disabled
SwitchableExceptions ==
  {EFM32_IRQ_MEMFAULT, EFM32_IRQ_BUSFAULT, EFM32_IRQ_USAGEFAULT,
   EFM32_IRQ_SYSTICK}

\* the enable state of vector i, read off the registers
IrqEnabled(i) ==
  IF ExternalIrq(i)
  THEN ((i - EFM32_IRQ_INTERRUPTS) % 32)
         \in nvic_enable[(i - EFM32_IRQ_INTERRUPTS) \div 32]
  ELSE IF i = EFM32_IRQ_MEMFAULT THEN 16 \in syshcon
  ELSE IF i = EFM32_IRQ_BUSFAULT THEN 17 \in syshcon
  ELSE IF i = EFM32_IRQ_USAGEFAULT THEN 18 \in syshcon
  ELSE IF i = EFM32_IRQ_SYSTICK THEN 0 \in systick_ctrl
  ELSE FALSE

\* a call of up_disable_irq or up_enable_irq is in progress
InIrqCall == irqpc \notin {"idle", "abort"}

\* the call has done its work and is about to return
IrqCallDone == irqpc = "dump"

\* C29: for an NVIC external interrupt irq, up_disable_irq(irq) leaves irq
\* disabled and up_enable_irq(irq) leaves it enabled whatever the state
\* before; a call that finds irq in the state it asks for changes no
\* register; and no step of either call changes the enable state of another
\* interrupt or exception, or another bit of the system registers.
C29_EnableDisableExternal ==
  /\ []((IrqCallDone /\ ExternalIrq(irq)) =>
          (IrqEnabled(irq) <=> irqop = "enable"))
  /\ [][(InIrqCall /\ ExternalIrq(irq)) =>
          /\ \A j \in 0 .. (NR_VECTORS - 1) \ {irq} :
               IrqEnabled(j)' = IrqEnabled(j)
          /\ syshcon' = syshcon
          /\ systick_ctrl' = systick_ctrl]_vars
  /\ [][(InIrqCall /\ ExternalIrq(irq)
           /\ (IrqEnabled(irq) <=> irqop = "enable")) =>
          UNCHANGED nvicregs]_vars

\* up_disable_irq has disabled the first line of the second enable register
\* while the first line of the first register is enabled and its last line
\* is not
C29_Witness ==
  /\ IrqCallDone /\ irqop = "disable"
  /\ irq = EFM32_IRQ_INTERRUPTS + 32
  /\ written = {NVIC_IRQ0_31_CLEAR + 4}
  /\ ~IrqEnabled(irq)
  /\ IrqEnabled(EFM32_IRQ_INTERRUPTS)
  /\ ~IrqEnabled(EFM32_IRQ_INTERRUPTS + 31)
  /\ IrqEnabled(NR_VECTORS - 1)

\* the irq numbers for which efm32_irqinfo has a register and a bit
Supported(i) == ExternalIrq(i) \/ i \in SwitchableExceptions

\* the addresses of the enable registers and of the two system registers
EnableRegisters ==
  {NVIC_SYSHCON, NVIC_SYSTICK_CTRL}
    \cup {NVIC_IRQ0_31_ENABLE + 4 * r : r \in NvicWords}
    \cup {NVIC_IRQ0_31_CLEAR + 4 * r : r \in NvicWords}

\* C30 as claimed: efm32_irqinfo returns OK with a register and a bit exactly
\* for the NVIC external interrupts and MEMFAULT, BUSFAULT, USAGEFAULT and
\* SYSTICK; for every other irq it returns -EINVAL, and the caller then
\* writes no register.
C30_IrqInfoTotal ==
  irqpc # "idle" =>
    /\ Supported(irq) =>
         (irqret = OK /\ regaddr \in EnableRegisters /\ Cardinality(bit) = 1)
    /\ ~Supported(irq) => (irqret = EINVAL /\ written = {})

\* C30 as amended: for an irq that meets the assertion of efm32_irqinfo
\* (EFM32_IRQ_NMI <= irq < NR_IRQS), and for every irq in a build without
\* assertions, efm32_irqinfo returns OK with a register and a bit exactly for
\* the NVIC external interrupts and MEMFAULT, BUSFAULT, USAGEFAULT and
\* SYSTICK, and -EINVAL otherwise, after which the caller writes no enable
\* register and no system register; for any other irq a build with
\* assertions stops at the assertion, nothing written.
C30_IrqInfoWithinPrecondition ==
  /\ [](InIrqCall =>
          /\ (~assertions \/ IrqPrecondition(irq))
          /\ Supported(irq) =>
               (irqret = OK /\ regaddr \in EnableRegisters
                  /\ Cardinality(bit) = 1)
          /\ ~Supported(irq) => (irqret = EINVAL /\ written = {}))
  /\ [](IrqPanicked =>
          (assertions /\ ~IrqPrecondition(irq) /\ written = {}))
  /\ [][(InIrqCall /\ irqret = EINVAL) => UNCHANGED nvicregs]_vars

\* up_disable_irq is about to return after efm32_irqinfo refused an exception
\* that cannot be disabled, with exceptions and lines enabled
C30_Witness ==
  /\ IrqCallDone /\ irqop = "disable"
  /\ irq = EFM32_IRQ_HARDFAULT
  /\ irqret = EINVAL /\ written = {}
  /\ IrqEnabled(EFM32_IRQ_MEMFAULT)
  /\ IrqEnabled(EFM32_IRQ_INTERRUPTS)


(***************************************************************************)
(* C31                                                                     *)
(***************************************************************************)

\* the external interrupt lines enabled at the controller
EnabledLines ==
  {32 * r + b : r \in NvicWords, b \in WordBits} \cap
    {n \in 0 .. (NEXTINT - 1) : (n % 32) \in nvic_enable[n \div 32]}

\* the lines of the vectors efm32_gpioirqinitialize may enable
GpioLines == {v - EFM32_IRQ_INTERRUPTS : v \in GpioVectors}

\* the priority field of exception x (4 .. 15) or of external line n
ExceptionPriority(x) ==
  nvic_priority[NVIC_SYSH4_7_PRIORITY + 4 * ((x - 4) \div 4)][(x % 4) + 1]

LinePriority(n) == nvic_priority[NVIC_IRQ0_3_PRIORITY + 4 * (n \div 4)][(n % 4) + 1]

\* this step is the global enable
GlobalEnable == int_enabled' # int_enabled

HandlersAttached == {EFM32_IRQ_SVCALL, EFM32_IRQ_HARDFAULT} \subseteq attached

\* C31 as stated: the global enable is the last step of up_irqinitialize,
\* and when it is made every external line is disabled (read as: save the
\* lines efm32_gpioirqinitialize has enabled since), every exception and
\* interrupt priority field holds NVIC_SYSH_PRIORITY_DEFAULT, and the
\* SVCall and HardFault handlers are attached
C31_AllPrioritiesDefaultAtEnable ==
  /\ [](bootpc # "done" => ~int_enabled)
  /\ [][GlobalEnable =>
          /\ bootpc = "enable" /\ bootpc' = "done" /\ int_enabled'
          /\ EnabledLines \subseteq GpioLines
          /\ \A x \in 4 .. 15 : ExceptionPriority(x) = NVIC_SYSH_PRIORITY_DEFAULT
          /\ \A n \in 0 .. (NEXTINT - 1) :
                LinePriority(n) = NVIC_SYSH_PRIORITY_DEFAULT
          /\ HandlersAttached]_vars

\* C31, amended: the global enable, made unless CONFIG_SUPPRESS_INTERRUPTS,
\* is the last step of up_irqinitialize; when it is made every external
\* line is disabled save those efm32_gpioirqinitialize has enabled, the
\* SVCall and HardFault handlers are attached, and every exception and
\* interrupt priority field holds NVIC_SYSH_PRIORITY_DEFAULT, except that
\* with CONFIG_ARMV7M_USEBASEPRI the SVCall field holds
\* NVIC_SYSH_SVCALL_PRIORITY
C31_EnableLast ==
  /\ [](bootpc # "done" => ~int_enabled)
  /\ [](bootpc = "done" => (int_enabled <=> ~config.suppress))
  /\ [][GlobalEnable =>
          /\ bootpc = "enable" /\ bootpc' = "done" /\ int_enabled'
          /\ ~config.suppress
          /\ EnabledLines \subseteq GpioLines
          /\ \A x \in 4 .. 15 :
                ExceptionPriority(x) =
                  IF config.usebasepri /\ x = EFM32_IRQ_SVCALL
                  THEN NVIC_SYSH_SVCALL_PRIORITY
                  ELSE NVIC_SYSH_PRIORITY_DEFAULT
          /\ \A n \in 0 .. (NEXTINT - 1) :
                LinePriority(n) = NVIC_SYSH_PRIORITY_DEFAULT
          /\ HandlersAttached]_vars

\* up_irqinitialize has returned with interrupts enabled in a build with
\* CONFIG_ARMV7M_USEBASEPRI, having found every line enabled and every
\* priority at its lowest: the lines are disabled save the GPIO ones, the
\* last line's priority is the default and the SVCall priority is its own
C31_Witness ==
  /\ bootpc = "done"
  /\ int_enabled
  /\ config.usebasepri
  /\ EnabledLines = GpioLines
  /\ LinePriority(NEXTINT - 1) = NVIC_SYSH_PRIORITY_DEFAULT
  /\ ExceptionPriority(EFM32_IRQ_SVCALL) = NVIC_SYSH_SVCALL_PRIORITY
  /\ ExceptionPriority(EFM32_IRQ_PENDSV) = NVIC_SYSH_PRIORITY_DEFAULT
  /\ HandlersAttached

====
